---- MODULE Spec2Model ----
(***************************************************************************)
(* Content pipeline of the Pakistan Internet Timeline:                     *)
(*   PakistanTimelineApp (src/src/js/app.js)   loader and orchestrator     *)
(*   JSONValidator (src/src/js/json-validator.js)                          *)
(*   TemplateRenderer (src/unnamed/part_000)                               *)
(***************************************************************************)
EXTENDS Integers, Sequences, FiniteSets, TLC

(***************************************************************************)
(* JSON values as JavaScript sees them.  An object keeps its members as a  *)
(* sequence of <<key, value>> pairs, in the order Object.keys reports.     *)
(* A string is the sequence of its characters.                             *)
(***************************************************************************)
Undefined == [t |-> "undefined"]
JNull == [t |-> "null"]
JBool(b) == [t |-> "boolean", b |-> b]
JNum(n) == [t |-> "number", n |-> n]
JStr(s) == [t |-> "string", s |-> s]
JArr(a) == [t |-> "array", a |-> a]
JObj(o) == [t |-> "object", o |-> o]

\* a function member of Object.prototype, and Object.prototype itself: what
\* a lookup on an object literal finds under a name it does not declare
JFun(name) == [t |-> "function", name |-> name]
ObjectPrototypeValue == [t |-> "prototype"]

\* typeof value
TypeOf(v) ==
    CASE v.t = "undefined" -> "undefined"
      [] v.t = "boolean" -> "boolean"
      [] v.t = "number" -> "number"
      [] v.t = "string" -> "string"
      [] v.t = "function" -> "function"
      [] OTHER -> "object"

\* Array.isArray(value)
IsArray(v) == v.t = "array"

\* the truthiness JavaScript gives a value in `if (v)`, `!v`, `a || b`
Truthy(v) ==
    CASE v.t = "undefined" -> FALSE
      [] v.t = "null" -> FALSE
      [] v.t = "boolean" -> v.b
      [] v.t = "number" -> v.n # 0
      [] v.t = "string" -> Len(v.s) > 0
      [] OTHER -> TRUE

\* a property read on null or undefined is a TypeError
IsNullish(v) == v.t \in {"undefined", "null"}

\* `key in value` for a plain object (arrays here never carry named members)
HasKey(v, k) == v.t = "object" /\ \E i \in 1..Len(v.o) : v.o[i][1] = k

\* value[key] on a non-nullish value: the member, or undefined
Get(v, k) ==
    IF HasKey(v, k)
    THEN v.o[CHOOSE i \in 1..Len(v.o) : v.o[i][1] = k][2]
    ELSE Undefined

\* Object.keys(value)
Keys(v) ==
    CASE v.t = "object" -> [i \in 1..Len(v.o) |-> v.o[i][1]]
      [] v.t = "array" -> [i \in 1..Len(v.a) |-> ToString(i - 1)]
      [] OTHER -> <<>>

\* value[key] where key comes from Object.keys(value)
Member(v, k) ==
    IF v.t = "array"
    THEN v.a[CHOOSE i \in 1..Len(v.a) : ToString(i - 1) = k]
    ELSE Get(v, k)

(***************************************************************************)
(* JSONValidator                                                           *)
(***************************************************************************)
Single(ty) == [list |-> FALSE, types |-> <<ty>>]
OneOf(tys) == [list |-> TRUE, types |-> tys]

\* JSONValidator.getRequiredFields: per item type, the required fields and
\* the declared type of every field the registry knows
getRequiredFields ==
    [heroStats |->
        [required |-> <<"icon", "title", "value", "description">>,
         types |-> <<<<"icon", Single("string")>>, <<"title", Single("string")>>,
                     <<"value", Single("string")>>, <<"description", Single("string")>>>>],
     historicalEvents |->
        [required |-> <<"date", "title", "description">>,
         types |-> <<<<"date", Single("string")>>, <<"title", Single("string")>>,
                     <<"description", Single("string")>>, <<"impact", Single("string")>>>>],
     yearlyStats |->
        [required |-> <<"year", "users", "penetration">>,
         types |-> <<<<"year", Single("string")>>, <<"users", Single("string")>>,
                     <<"penetration", Single("string")>>>>],
     socialMediaPlatforms |->
        [required |-> <<"platform", "users">>,
         types |-> <<<<"platform", Single("string")>>, <<"users", Single("string")>>,
                     <<"penetration", Single("string")>>, <<"ranking", Single("string")>>,
                     <<"note", Single("string")>>, <<"status", Single("string")>>>>],
     companies |->
        [required |-> <<"name", "marketShare", "subscribers">>,
         types |-> <<<<"name", Single("string")>>,
                     <<"marketShare", OneOf(<<"string", "number">>)>>,
                     <<"subscribers", Single("string")>>, <<"founded", Single("string")>>,
                     <<"keyMilestone", Single("string")>>>>],
     policies |->
        [required |-> <<"title", "year", "target", "achievement">>,
         types |-> <<<<"title", Single("string")>>,
                     <<"year", OneOf(<<"string", "number">>)>>,
                     <<"target", Single("string")>>, <<"achievement", Single("string")>>,
                     <<"description", Single("string")>>,
                     <<"achievementStatus", Single("string")>>>>],
     infrastructure |->
        [required |-> <<"name", "icon", "specifications">>,
         types |-> <<<<"name", Single("string")>>, <<"icon", Single("string")>>,
                     <<"specifications", Single("array")>>>>]]

\* `types` is an object literal: a lookup of a name it does not declare
\* reaches Object.prototype, whose members are truthy
ObjectPrototype == {"constructor", "toString", "toLocaleString", "valueOf",
                    "hasOwnProperty", "isPrototypeOf", "propertyIsEnumerable",
                    "__proto__", "__defineGetter__", "__defineSetter__",
                    "__lookupGetter__", "__lookupSetter__"}

\* `${member}` for a member of Object.prototype
PrototypeString(field) ==
    CASE field = "__proto__" -> "[object Object]"
      [] field = "constructor" -> "function Object() { [native code] }"
      [] OTHER -> "function " \o field \o "() { [native code] }"

\* the registry declares a type for the field
Declares(req, field) == \E i \in 1..Len(req.types) : req.types[i][1] = field

\* the fields the first loop has checked are skipped
HasTypeUnchecked(req, field) ==
    /\ Declares(req, field) \/ field \in ObjectPrototype
    /\ \A i \in 1..Len(req.required) : req.required[i] # field

\* requirements.types[field] is truthy
HasType(req, field) == Declares(req, field) \/ field \in ObjectPrototype

\* requirements.types[field]: the declared type, or the member of
\* Object.prototype, which no typeof result equals
TypeFor(req, field) ==
    IF Declares(req, field)
    THEN req.types[CHOOSE i \in 1..Len(req.types) : req.types[i][1] = field][2]
    ELSE Single(PrototypeString(field))

\* expectedType.join(', ')
RECURSIVE Join(_)
Join(tys) ==
    IF Len(tys) = 0 THEN ""
    ELSE IF Len(tys) = 1 THEN tys[1]
    ELSE tys[1] \o ", " \o Join(Tail(tys))

\* the actual type is typeof value alone: an array counts as an object
validateFieldTypeOf(errs, value, expectedType, fieldPath) ==
    LET actualType == TypeOf(value)
    IN  IF expectedType.list
        THEN IF \E i \in 1..Len(expectedType.types) : expectedType.types[i] = actualType
             THEN errs
             ELSE Append(errs, fieldPath \o " must be one of: "
                               \o Join(expectedType.types) \o ", got: " \o actualType)
        ELSE IF actualType = expectedType.types[1]
             THEN errs
             ELSE Append(errs, fieldPath \o " must be " \o expectedType.types[1]
                               \o ", got: " \o actualType)

\* JSONValidator.validateFieldType; errs is this.validationErrors
validateFieldType(errs, value, expectedType, fieldPath) ==
    LET actualType == IF IsArray(value) THEN "array" ELSE TypeOf(value)
    IN  IF expectedType.list
        THEN IF \E i \in 1..Len(expectedType.types) : expectedType.types[i] = actualType
             THEN errs
             ELSE Append(errs, fieldPath \o " must be one of: "
                               \o Join(expectedType.types) \o ", got: " \o actualType)
        ELSE IF actualType = expectedType.types[1]
             THEN errs
             ELSE Append(errs, fieldPath \o " must be " \o expectedType.types[1]
                               \o ", got: " \o actualType)

\* A validation in progress: the accumulated errors, the message of the
\* exception that escaped, if one did, and the object being validated as
\* the code has left it.  The code holds the document, its sections and
\* their elements by reference; here each function gives back the object it
\* was given, and its caller puts it back where it was read from.
Acc(errs, obj) == [errs |-> errs, thrown |-> FALSE, msg |-> "", obj |-> obj]
Thrown(errs, msg, obj) == [errs |-> errs, thrown |-> TRUE, msg |-> msg, obj |-> obj]

\* value[key] = member on an object: the member is replaced, or added last
SetMember(v, k, member) ==
    IF v.t # "object" THEN v
    ELSE IF HasKey(v, k)
    THEN JObj([i \in 1..Len(v.o) |-> IF v.o[i][1] = k THEN <<k, member>> ELSE v.o[i]])
    ELSE JObj(Append(v.o, <<k, member>>))

\* the validation r of member key of acc.obj has ended: the member is what
\* r left of it
Inside(acc, key, r) ==
    [errs |-> r.errs, thrown |-> r.thrown, msg |-> r.msg,
     obj |-> SetMember(acc.obj, key, r.obj)]

\* the validation r of element i of the array acc.obj has ended: the
\* element is what r left of it
Element(acc, i, r) ==
    [errs |-> r.errs, thrown |-> r.thrown, msg |-> r.msg,
     obj |-> JArr([acc.obj.a EXCEPT ![i] = r.obj])]

\* the first loop of validateItemStructure, from required field number i on
RECURSIVE RequiredPass(_, _, _, _, _)
RequiredPass(errs, item, req, itemPath, i) ==
    IF i > Len(req.required) THEN errs
    ELSE LET field == req.required[i]
             next == IF ~HasKey(item, field)
                     THEN Append(errs, itemPath \o " missing required field: " \o field)
                     ELSE validateFieldType(errs, Get(item, field), TypeFor(req, field),
                                            itemPath \o "." \o field)
         IN  RequiredPass(next, item, req, itemPath, i + 1)

\* the second loop of validateItemStructure, from key number i on
RECURSIVE PresentPass(_, _, _, _, _)
PresentPass(errs, item, req, itemPath, i) ==
    IF i > Len(Keys(item)) THEN errs
    ELSE LET field == Keys(item)[i]
             next == IF HasType(req, field)
                     THEN validateFieldType(errs, Member(item, field), TypeFor(req, field),
                                            itemPath \o "." \o field)
                     ELSE errs
         IN  PresentPass(next, item, req, itemPath, i + 1)

\* the item is marked as validated
validateItemStructureMarking(errs, item, itemType, itemPath) ==
    Acc(errs, SetMember(item, "validated", JBool(TRUE)))

\* JSONValidator.validateItemStructure: lines 236-263 read the item with
\* typeof, `in`, item[field] and Object.keys, and assign nothing to it
validateItemStructure(errs, item, itemType, itemPath) ==
    IF TypeOf(item) # "object"
    THEN Acc(Append(errs, itemPath \o " must be an object"), item)
    ELSE IF item.t = "null"
    THEN \* `field in null` raises a TypeError
         Thrown(errs, "Cannot use 'in' operator to search for '"
                      \o getRequiredFields[itemType].required[1] \o "' in null", item)
    ELSE Acc(PresentPass(RequiredPass(errs, item, getRequiredFields[itemType], itemPath, 1),
                         item, getRequiredFields[itemType], itemPath, 1), item)

\* JSONValidator.validateArrayItems on the array acc.obj, from element
\* number i on
RECURSIVE ItemsFrom(_, _, _)
ItemsFrom(acc, itemType, i) ==
    IF acc.thrown \/ i > Len(acc.obj.a) THEN acc
    ELSE ItemsFrom(Element(acc, i,
                           validateItemStructure(acc.errs, acc.obj.a[i], itemType,
                                                 itemType \o "[" \o ToString(i - 1) \o "]")),
                   itemType, i + 1)

\* JSONValidator.validateArrayItems on acc.obj
validateArrayItems(acc, itemType) ==
    IF acc.thrown THEN acc
    ELSE IF ~IsArray(acc.obj)
    THEN Acc(Append(acc.errs, itemType \o " must be an array"), acc.obj)
    ELSE ItemsFrom(acc, itemType, 1)

\* the check every section makes of a member of acc.obj: the member is a
\* truthy array, else one error
ArrayMember(acc, key, path, itemType) ==
    IF acc.thrown THEN acc
    ELSE IF ~Truthy(Get(acc.obj, key)) \/ ~IsArray(Get(acc.obj, key))
    THEN Acc(Append(acc.errs, path \o " must be an array"), acc.obj)
    ELSE IF itemType = "" THEN acc
    ELSE Inside(acc, key, validateArrayItems(Acc(acc.errs, Get(acc.obj, key)), itemType))

\* JSONValidator.validateFoundationEra on the era acc.obj
validateFoundationEra(acc) ==
    ArrayMember(ArrayMember(acc, "events", "foundationEra.events", "historicalEvents"),
                "yearlyStats", "foundationEra.yearlyStats", "yearlyStats")

\* JSONValidator.validateMobileEra on the era acc.obj
validateMobileEra(acc) ==
    ArrayMember(ArrayMember(acc, "events", "mobileEra.events", "historicalEvents"),
                "socialMediaGrowth", "mobileEra.socialMediaGrowth", "socialMediaPlatforms")

\* JSONValidator.validateFintechEra on the era acc.obj: the two service
\* lists are only checked to be arrays
validateFintechEra(acc) ==
    ArrayMember(
        ArrayMember(ArrayMember(acc, "events", "fintechEra.events", "historicalEvents"),
                    "mobileBanking", "fintechEra.mobileBanking", ""),
        "investmentBoom", "fintechEra.investmentBoom", "")

\* the validator of the era under key
validateEra(acc, key) ==
    CASE key = "foundationEra" -> validateFoundationEra(acc)
      [] key = "mobileEra" -> validateMobileEra(acc)
      [] key = "fintechEra" -> validateFintechEra(acc)

\* one era of validateHistoricalEvents on the document acc.obj: the member
\* is a truthy object
EraMember(acc, key) ==
    IF acc.thrown THEN acc
    ELSE IF ~Truthy(Get(acc.obj, key)) \/ TypeOf(Get(acc.obj, key)) # "object"
    THEN Acc(Append(acc.errs, key \o " must be an object"), acc.obj)
    ELSE Inside(acc, key, validateEra(Acc(acc.errs, Get(acc.obj, key)), key))

\* JSONValidator.getValidationResult
getValidationResult(errs) ==
    [success |-> Len(errs) = 0, errors |-> errs,
     data |-> IF Len(errs) = 0 THEN "Valid" ELSE "null"]

\* the failure result carries no error
validationFailedSilent(message) ==
    [success |-> FALSE, errors |-> <<>>, data |-> "null"]

\* JSONValidator.validationFailed
validationFailed(message) ==
    [success |-> FALSE, errors |-> <<message>>, data |-> "null"]

\* JSONValidator.validateHistoricalEvents, before the result is built
validateHistoricalEvents(errs, data) ==
    EraMember(
        EraMember(
            EraMember(ArrayMember(Acc(errs, data), "heroStats", "heroStats", "heroStats"),
                      "foundationEra"),
            "mobileEra"),
        "fintechEra")

\* the statistics document is checked for its yearlyStats
validateStatisticsChecked(errs, data) ==
    ArrayMember(Acc(errs, data), "yearlyStats", "yearlyStats", "yearlyStats")

\* JSONValidator.validateStatistics
validateStatistics(errs, data) == Acc(errs, data)

\* validateCompanies, validateSocialMedia, validatePolicies,
\* validateInfrastructure: one array member checked against one item type
validateCompanies(errs, data) ==
    ArrayMember(Acc(errs, data), "companies", "companies", "companies")
validateSocialMedia(errs, data) ==
    ArrayMember(Acc(errs, data), "platforms", "platforms", "socialMediaPlatforms")
validatePolicies(errs, data) ==
    ArrayMember(Acc(errs, data), "policies", "policies", "policies")
validateInfrastructure(errs, data) ==
    ArrayMember(Acc(errs, data), "infrastructure", "infrastructure", "infrastructure")

DataTypes == {"historical_events", "statistics", "companies", "social_media",
              "policies", "infrastructure"}

\* the switch of validateJSONData
Dispatch(errs, jsonData, dataType) ==
    CASE dataType = "historical_events" -> validateHistoricalEvents(errs, jsonData)
      [] dataType = "statistics" -> validateStatistics(errs, jsonData)
      [] dataType = "companies" -> validateCompanies(errs, jsonData)
      [] dataType = "social_media" -> validateSocialMedia(errs, jsonData)
      [] dataType = "policies" -> validatePolicies(errs, jsonData)
      [] OTHER -> validateInfrastructure(errs, jsonData)

\* only null is taken for absent
IsAbsentNull(jsonData) == jsonData = JNull

\* !jsonData, line 99
IsAbsent(jsonData) == ~Truthy(jsonData)

\* the kind is not named
UnknownKindUnnamed(dataType) == "Unknown data type"

\* `Unknown data type: ${dataType}`, line 122
UnknownKind(dataType) == "Unknown data type: " \o dataType

\* the accumulator is not reset
KeepErrors(prev) == prev

\* the value of this.validationErrors at the start of a call
ResetErrors(prev) == <<>>

\* JSONValidator.validateJSONData: the errors the call leaves in
\* this.validationErrors, given the ones the previous call left
ErrorsAfter(prev, jsonData, dataType) ==
    IF IsAbsent(jsonData) \/ TypeOf(jsonData) # "object" \/ dataType \notin DataTypes
    THEN ResetErrors(prev)
    ELSE Dispatch(ResetErrors(prev), jsonData, dataType).errs

\* the fault leaves validateJSONData: there is no result
Rethrown(acc) == [raised |-> acc.msg]

\* the catch block of validateJSONData, lines 124-126
Converted(acc) == validationFailed("Validation error: " \o acc.msg)

\* JSONValidator.validateJSONData: the result returned
validateJSONData(prev, jsonData, dataType) ==
    IF IsAbsent(jsonData)
    THEN validationFailed("JSON data is null or undefined")
    ELSE IF TypeOf(jsonData) # "object"
    THEN validationFailed("JSON data must be an object")
    ELSE IF dataType \notin DataTypes
    THEN validationFailed(UnknownKind(dataType))
    ELSE LET acc == Dispatch(ResetErrors(prev), jsonData, dataType)
         IN  IF acc.thrown
             THEN Converted(acc)
             ELSE getValidationResult(acc.errs)

\* the document as validateJSONData(jsonData, dataType) leaves it: as it
\* was when the call returns before the switch (lines 99-105, 121-122),
\* else as the validator of its kind left it
DocumentAfter(jsonData, dataType) ==
    IF IsAbsent(jsonData) \/ TypeOf(jsonData) # "object" \/ dataType \notin DataTypes
    THEN jsonData
    ELSE Dispatch(<<>>, jsonData, dataType).obj

\* the text is handed on without the check
validateJSONStringUnchecked(jsonString) ==
    [success |-> TRUE, error |-> "null",
     data |-> IF jsonString.form = "json" THEN jsonString.value ELSE JStr(<<"<">>)]

\* JSONValidator.validateJSONString applied to a response body.  A body is
\* the empty text, a text JSON.parse rejects, or the JSON text of a value.
validateJSONString(jsonString) ==
    IF jsonString.form = "empty"
    THEN [success |-> FALSE, error |-> "JSON string is empty or not a string",
          data |-> JNull]
    ELSE IF jsonString.form = "json"
    THEN [success |-> TRUE, error |-> "null", data |-> jsonString.value]
    ELSE [success |-> FALSE, error |-> "JSON parse error: Unexpected token",
          data |-> JNull]

(***************************************************************************)
(* Strings                                                                 *)
(***************************************************************************)
\* A character of ASCII is the string of that character; a character
\* outside ASCII, and the grave accent, is named by its code point, as
\* "U+212A".  The alphabet of the titles is ASCII, Latin-1 Supplement, Latin
\* Extended-A, Greek and Coptic, Cyrillic up to U+045F, the Ohm, Kelvin and
\* Angstrom signs, the combining dot above and the curly quotes.

\* the characters of the alphabet outside ASCII that
\* String.prototype.toLowerCase changes, each with the character it becomes
\* (U+0130 becomes two)
LowerPairs ==
    <<
      <<"U+00C0", "U+00E0">>, <<"U+00C1", "U+00E1">>, <<"U+00C2", "U+00E2">>, <<"U+00C3", "U+00E3">>,
      <<"U+00C4", "U+00E4">>, <<"U+00C5", "U+00E5">>, <<"U+00C6", "U+00E6">>, <<"U+00C7", "U+00E7">>,
      <<"U+00C8", "U+00E8">>, <<"U+00C9", "U+00E9">>, <<"U+00CA", "U+00EA">>, <<"U+00CB", "U+00EB">>,
      <<"U+00CC", "U+00EC">>, <<"U+00CD", "U+00ED">>, <<"U+00CE", "U+00EE">>, <<"U+00CF", "U+00EF">>,
      <<"U+00D0", "U+00F0">>, <<"U+00D1", "U+00F1">>, <<"U+00D2", "U+00F2">>, <<"U+00D3", "U+00F3">>,
      <<"U+00D4", "U+00F4">>, <<"U+00D5", "U+00F5">>, <<"U+00D6", "U+00F6">>, <<"U+00D8", "U+00F8">>,
      <<"U+00D9", "U+00F9">>, <<"U+00DA", "U+00FA">>, <<"U+00DB", "U+00FB">>, <<"U+00DC", "U+00FC">>,
      <<"U+00DD", "U+00FD">>, <<"U+00DE", "U+00FE">>, <<"U+0100", "U+0101">>, <<"U+0102", "U+0103">>,
      <<"U+0104", "U+0105">>, <<"U+0106", "U+0107">>, <<"U+0108", "U+0109">>, <<"U+010A", "U+010B">>,
      <<"U+010C", "U+010D">>, <<"U+010E", "U+010F">>, <<"U+0110", "U+0111">>, <<"U+0112", "U+0113">>,
      <<"U+0114", "U+0115">>, <<"U+0116", "U+0117">>, <<"U+0118", "U+0119">>, <<"U+011A", "U+011B">>,
      <<"U+011C", "U+011D">>, <<"U+011E", "U+011F">>, <<"U+0120", "U+0121">>, <<"U+0122", "U+0123">>,
      <<"U+0124", "U+0125">>, <<"U+0126", "U+0127">>, <<"U+0128", "U+0129">>, <<"U+012A", "U+012B">>,
      <<"U+012C", "U+012D">>, <<"U+012E", "U+012F">>, <<"U+0132", "U+0133">>, <<"U+0134", "U+0135">>,
      <<"U+0136", "U+0137">>, <<"U+0139", "U+013A">>, <<"U+013B", "U+013C">>, <<"U+013D", "U+013E">>,
      <<"U+013F", "U+0140">>, <<"U+0141", "U+0142">>, <<"U+0143", "U+0144">>, <<"U+0145", "U+0146">>,
      <<"U+0147", "U+0148">>, <<"U+014A", "U+014B">>, <<"U+014C", "U+014D">>, <<"U+014E", "U+014F">>,
      <<"U+0150", "U+0151">>, <<"U+0152", "U+0153">>, <<"U+0154", "U+0155">>, <<"U+0156", "U+0157">>,
      <<"U+0158", "U+0159">>, <<"U+015A", "U+015B">>, <<"U+015C", "U+015D">>, <<"U+015E", "U+015F">>,
      <<"U+0160", "U+0161">>, <<"U+0162", "U+0163">>, <<"U+0164", "U+0165">>, <<"U+0166", "U+0167">>,
      <<"U+0168", "U+0169">>, <<"U+016A", "U+016B">>, <<"U+016C", "U+016D">>, <<"U+016E", "U+016F">>,
      <<"U+0170", "U+0171">>, <<"U+0172", "U+0173">>, <<"U+0174", "U+0175">>, <<"U+0176", "U+0177">>,
      <<"U+0178", "U+00FF">>, <<"U+0179", "U+017A">>, <<"U+017B", "U+017C">>, <<"U+017D", "U+017E">>,
      <<"U+0370", "U+0371">>, <<"U+0372", "U+0373">>, <<"U+0376", "U+0377">>, <<"U+037F", "U+03F3">>,
      <<"U+0386", "U+03AC">>, <<"U+0388", "U+03AD">>, <<"U+0389", "U+03AE">>, <<"U+038A", "U+03AF">>,
      <<"U+038C", "U+03CC">>, <<"U+038E", "U+03CD">>, <<"U+038F", "U+03CE">>, <<"U+0391", "U+03B1">>,
      <<"U+0392", "U+03B2">>, <<"U+0393", "U+03B3">>, <<"U+0394", "U+03B4">>, <<"U+0395", "U+03B5">>,
      <<"U+0396", "U+03B6">>, <<"U+0397", "U+03B7">>, <<"U+0398", "U+03B8">>, <<"U+0399", "U+03B9">>,
      <<"U+039A", "U+03BA">>, <<"U+039B", "U+03BB">>, <<"U+039C", "U+03BC">>, <<"U+039D", "U+03BD">>,
      <<"U+039E", "U+03BE">>, <<"U+039F", "U+03BF">>, <<"U+03A0", "U+03C0">>, <<"U+03A1", "U+03C1">>,
      <<"U+03A3", "U+03C3">>, <<"U+03A4", "U+03C4">>, <<"U+03A5", "U+03C5">>, <<"U+03A6", "U+03C6">>,
      <<"U+03A7", "U+03C7">>, <<"U+03A8", "U+03C8">>, <<"U+03A9", "U+03C9">>, <<"U+03AA", "U+03CA">>,
      <<"U+03AB", "U+03CB">>, <<"U+03CF", "U+03D7">>, <<"U+03D8", "U+03D9">>, <<"U+03DA", "U+03DB">>,
      <<"U+03DC", "U+03DD">>, <<"U+03DE", "U+03DF">>, <<"U+03E0", "U+03E1">>, <<"U+03E2", "U+03E3">>,
      <<"U+03E4", "U+03E5">>, <<"U+03E6", "U+03E7">>, <<"U+03E8", "U+03E9">>, <<"U+03EA", "U+03EB">>,
      <<"U+03EC", "U+03ED">>, <<"U+03EE", "U+03EF">>, <<"U+03F4", "U+03B8">>, <<"U+03F7", "U+03F8">>,
      <<"U+03F9", "U+03F2">>, <<"U+03FA", "U+03FB">>, <<"U+03FD", "U+037B">>, <<"U+03FE", "U+037C">>,
      <<"U+03FF", "U+037D">>, <<"U+0400", "U+0450">>, <<"U+0401", "U+0451">>, <<"U+0402", "U+0452">>,
      <<"U+0403", "U+0453">>, <<"U+0404", "U+0454">>, <<"U+0405", "U+0455">>, <<"U+0406", "U+0456">>,
      <<"U+0407", "U+0457">>, <<"U+0408", "U+0458">>, <<"U+0409", "U+0459">>, <<"U+040A", "U+045A">>,
      <<"U+040B", "U+045B">>, <<"U+040C", "U+045C">>, <<"U+040D", "U+045D">>, <<"U+040E", "U+045E">>,
      <<"U+040F", "U+045F">>, <<"U+0410", "U+0430">>, <<"U+0411", "U+0431">>, <<"U+0412", "U+0432">>,
      <<"U+0413", "U+0433">>, <<"U+0414", "U+0434">>, <<"U+0415", "U+0435">>, <<"U+0416", "U+0436">>,
      <<"U+0417", "U+0437">>, <<"U+0418", "U+0438">>, <<"U+0419", "U+0439">>, <<"U+041A", "U+043A">>,
      <<"U+041B", "U+043B">>, <<"U+041C", "U+043C">>, <<"U+041D", "U+043D">>, <<"U+041E", "U+043E">>,
      <<"U+041F", "U+043F">>, <<"U+0420", "U+0440">>, <<"U+0421", "U+0441">>, <<"U+0422", "U+0442">>,
      <<"U+0423", "U+0443">>, <<"U+0424", "U+0444">>, <<"U+0425", "U+0445">>, <<"U+0426", "U+0446">>,
      <<"U+0427", "U+0447">>, <<"U+0428", "U+0448">>, <<"U+0429", "U+0449">>, <<"U+042A", "U+044A">>,
      <<"U+042B", "U+044B">>, <<"U+042C", "U+044C">>, <<"U+042D", "U+044D">>, <<"U+042E", "U+044E">>,
      <<"U+042F", "U+044F">>, <<"U+2126", "U+03C9">>, <<"U+212A", "k">>, <<"U+212B", "U+00E5">>
    >>

\* the lower case of a character outside ASCII
LowerOther(c, pairs) ==
    IF \E i \in DOMAIN pairs : pairs[i][1] = c
    THEN pairs[CHOOSE i \in DOMAIN pairs : pairs[i][1] = c][2]
    ELSE c

\* String.prototype.toLowerCase on one character that becomes one character
LowerChar(c) ==
    CASE c = "A" -> "a" [] c = "B" -> "b" [] c = "C" -> "c" [] c = "D" -> "d"
      [] c = "E" -> "e" [] c = "F" -> "f" [] c = "G" -> "g" [] c = "H" -> "h"
      [] c = "I" -> "i" [] c = "J" -> "j" [] c = "K" -> "k" [] c = "L" -> "l"
      [] c = "M" -> "m" [] c = "N" -> "n" [] c = "O" -> "o" [] c = "P" -> "p"
      [] c = "Q" -> "q" [] c = "R" -> "r" [] c = "S" -> "s" [] c = "T" -> "t"
      [] c = "U" -> "u" [] c = "V" -> "v" [] c = "W" -> "w" [] c = "X" -> "x"
      [] c = "Y" -> "y" [] c = "Z" -> "z"
      [] OTHER -> IF Len(c) = 1 THEN c ELSE LowerOther(c, LowerPairs)

\* the letters of ASCII
AsciiLetters ==
    {"A", "B", "C", "D", "E", "F", "G", "H", "I", "J", "K", "L", "M", "N", "O", "P", "Q",
     "R", "S", "T", "U", "V", "W", "X", "Y", "Z", "a", "b", "c", "d", "e", "f", "g", "h",
     "i", "j", "k", "l", "m", "n", "o", "p", "q", "r", "s", "t", "u", "v", "w", "x", "y",
     "z"}

\* the cased letters of the alphabet: those of ASCII, those of the table and
\* those without a pair in the table; with the case-ignorable characters
\* they make the context of a capital sigma.  A character that is both
\* (U+037A) counts as case-ignorable there.
Cased(c, pairs) ==
    \/ c \in AsciiLetters
    \/ \E i \in DOMAIN pairs : c \in {pairs[i][1], pairs[i][2]}
    \/ c \in {"U+00AA", "U+00B5", "U+00BA", "U+00DF", "U+0130", "U+0131", "U+0138",
              "U+0149", "U+017F", "U+0390", "U+03B0", "U+03C2", "U+03D0", "U+03D1",
              "U+03D2", "U+03D3", "U+03D4", "U+03D5", "U+03D6", "U+03F0", "U+03F1",
              "U+03F5", "U+03FC"}
CaseIgnorable == {"'", ".", ":", "^", "U+0060", "U+00A8", "U+00AD", "U+00AF", "U+00B4",
                  "U+00B7", "U+00B8", "U+0307", "U+0374", "U+0375", "U+037A", "U+0384",
                  "U+0385", "U+0387", "U+2018", "U+2019"}

\* the capital sigma at i ends a word: a cased letter stands before it and
\* none after it, case-ignorable characters aside
FinalSigma(s, i, pairs) ==
    /\ \E j \in 1..(i - 1) :
          Cased(s[j], pairs) /\ \A k \in (j + 1)..(i - 1) : s[k] \in CaseIgnorable
    /\ ~\E j \in (i + 1)..Len(s) :
          Cased(s[j], pairs) /\ \A k \in (i + 1)..(j - 1) : s[k] \in CaseIgnorable

\* what toLowerCase makes of the character at i: the capital I with a dot
\* becomes two characters, a final capital sigma the final small sigma
LowerAt(s, i) ==
    CASE s[i] = "U+0130" -> <<"i", "U+0307">>
      [] s[i] = "U+03A3" /\ FinalSigma(s, i, LowerPairs) -> <<"U+03C2">>
      [] OTHER -> <<LowerChar(s[i])>>

RECURSIVE LowerFrom(_, _)
LowerFrom(s, i) == IF i > Len(s) THEN <<>> ELSE LowerAt(s, i) \o LowerFrom(s, i + 1)

\* String.prototype.toLowerCase
toLowerCase(s) ==
    IF \A i \in 1..Len(s) : s[i] \notin {"U+0130", "U+03A3"}
    THEN [i \in 1..Len(s) |-> LowerChar(s[i])]
    ELSE LowerFrom(s, 1)

\* String.prototype.includes
includes(s, sub) ==
    \E i \in 0..(Len(s) - Len(sub)) : \A j \in 1..Len(sub) : s[i + j] = sub[j]

\* the characters of the names the program looks up
Spelled(name) ==
    CASE name = "constructor" -> <<"c", "o", "n", "s", "t", "r", "u", "c", "t", "o", "r">>
      [] name = "toString" -> <<"t", "o", "S", "t", "r", "i", "n", "g">>
      [] name = "toLocaleString" ->
            <<"t", "o", "L", "o", "c", "a", "l", "e", "S", "t", "r", "i", "n", "g">>
      [] name = "valueOf" -> <<"v", "a", "l", "u", "e", "O", "f">>
      [] name = "hasOwnProperty" ->
            <<"h", "a", "s", "O", "w", "n", "P", "r", "o", "p", "e", "r", "t", "y">>
      [] name = "isPrototypeOf" ->
            <<"i", "s", "P", "r", "o", "t", "o", "t", "y", "p", "e", "O", "f">>
      [] name = "propertyIsEnumerable" ->
            <<"p", "r", "o", "p", "e", "r", "t", "y", "I", "s", "E", "n", "u", "m", "e", "r", "a", "b", "l", "e">>
      [] name = "__proto__" -> <<"_", "_", "p", "r", "o", "t", "o", "_", "_">>
      [] name = "__defineGetter__" ->
            <<"_", "_", "d", "e", "f", "i", "n", "e", "G", "e", "t", "t", "e", "r", "_", "_">>
      [] name = "__defineSetter__" ->
            <<"_", "_", "d", "e", "f", "i", "n", "e", "S", "e", "t", "t", "e", "r", "_", "_">>
      [] name = "__lookupGetter__" ->
            <<"_", "_", "l", "o", "o", "k", "u", "p", "G", "e", "t", "t", "e", "r", "_", "_">>
      [] name = "__lookupSetter__" ->
            <<"_", "_", "l", "o", "o", "k", "u", "p", "S", "e", "t", "t", "e", "r", "_", "_">>
      [] name = "heroStats" -> <<"h", "e", "r", "o", "S", "t", "a", "t", "s">>
      [] name = "historicalEvents" ->
            <<"h", "i", "s", "t", "o", "r", "i", "c", "a", "l", "E", "v", "e", "n", "t", "s">>
      [] name = "statistics" -> <<"s", "t", "a", "t", "i", "s", "t", "i", "c", "s">>
      [] name = "companies" -> <<"c", "o", "m", "p", "a", "n", "i", "e", "s">>
      [] name = "socialMedia" -> <<"s", "o", "c", "i", "a", "l", "M", "e", "d", "i", "a">>
      [] name = "policies" -> <<"p", "o", "l", "i", "c", "i", "e", "s">>
      [] name = "infrastructure" ->
            <<"i", "n", "f", "r", "a", "s", "t", "r", "u", "c", "t", "u", "r", "e">>

\* Number.prototype.toString for the integers the documents carry
DigitChar(d) ==
    CASE d = 0 -> "0" [] d = 1 -> "1" [] d = 2 -> "2" [] d = 3 -> "3" [] d = 4 -> "4"
      [] d = 5 -> "5" [] d = 6 -> "6" [] d = 7 -> "7" [] d = 8 -> "8" [] d = 9 -> "9"

RECURSIVE Digits(_)
Digits(n) == IF n < 10 THEN <<DigitChar(n)>> ELSE Digits(n \div 10) \o <<DigitChar(n % 10)>>

NumberString(n) == IF n < 0 THEN <<"-">> \o Digits(0 - n) ELSE Digits(n)

\* a TypeError, as a value an operator gives in place of its result
TypeError(message) == [t |-> "TypeError", message |-> message]

\* the TypeError of ToPrimitive
CannotConvert == TypeError("Cannot convert object to primitive value")

\* the TypeError of value[key] on null and undefined
CannotRead(v, key) ==
    TypeError("Cannot read properties of " \o v.t \o " (reading '" \o key \o "')")

\* ToPrimitive(value) throws.  No member of a document is a function: an
\* object with a member toString has no toString to call, and valueOf, its
\* own or that of Object.prototype, gives no primitive.  An array is
\* converted by Array.prototype.join, which converts its elements.
RECURSIVE Unconvertible(_)
Unconvertible(v) ==
    CASE v.t = "object" -> HasKey(v, "toString")
      [] v.t = "array" -> \E i \in 1..Len(v.a) : Unconvertible(v.a[i])
      [] OTHER -> FALSE

\* String(value), `${value}` and the key of value in object[value]: the
\* text JavaScript gives a value that can be converted.  An array is its
\* elements joined by commas, null and undefined elements left empty; a
\* function of Object.prototype is its native source, one token.
RECURSIVE JsString(_)
RECURSIVE JoinFrom(_, _)
JoinFrom(a, i) ==
    IF i > Len(a) THEN <<>>
    ELSE (IF i > 1 THEN <<",">> ELSE <<>>)
         \o (IF IsNullish(a[i]) THEN <<>> ELSE JsString(a[i]))
         \o JoinFrom(a, i + 1)
JsString(v) ==
    CASE v.t = "string" -> v.s
      [] v.t = "number" -> NumberString(v.n)
      [] v.t = "boolean" ->
            IF v.b THEN <<"t", "r", "u", "e">> ELSE <<"f", "a", "l", "s", "e">>
      [] v.t = "undefined" -> <<"u", "n", "d", "e", "f", "i", "n", "e", "d">>
      [] v.t = "null" -> <<"n", "u", "l", "l">>
      [] v.t = "array" -> JoinFrom(v.a, 1)
      [] v.t = "function" -> <<PrototypeString(v.name)>>
      [] OTHER -> <<"[", "o", "b", "j", "e", "c", "t", " ", "O", "b", "j", "e", "c", "t",
                    "]">>

\* StrWhiteSpaceChar: white space and line terminators
WhiteSpace == {" ", "\t", "\n", "\r", "\f", "U+000B", "U+00A0", "U+1680", "U+2000",
               "U+2001", "U+2002", "U+2003", "U+2004", "U+2005", "U+2006", "U+2007",
               "U+2008", "U+2009", "U+200A", "U+2028", "U+2029", "U+202F", "U+205F",
               "U+3000", "U+FEFF"}

\* String.prototype.trim, which ToNumber applies too
Trimmed(s) ==
    IF \A i \in 1..Len(s) : s[i] \in WhiteSpace THEN <<>>
    ELSE SubSeq(s, CHOOSE i \in 1..Len(s) :
                       s[i] \notin WhiteSpace /\ \A j \in 1..(i - 1) : s[j] \in WhiteSpace,
                   CHOOSE i \in 1..Len(s) :
                       s[i] \notin WhiteSpace /\ \A j \in (i + 1)..Len(s) : s[j] \in WhiteSpace)

DecimalDigits == {"0", "1", "2", "3", "4", "5", "6", "7", "8", "9"}
HexDigits == DecimalDigits \cup {"a", "b", "c", "d", "e", "f", "A", "B", "C", "D", "E", "F"}
OctalDigits == {"0", "1", "2", "3", "4", "5", "6", "7"}
BinaryDigits == {"0", "1"}
InfinityChars == <<"I", "n", "f", "i", "n", "i", "t", "y">>

\* every character of s is one of digits, and one is not "0"
PositiveIn(s, digits) ==
    /\ Len(s) > 0
    /\ \A i \in 1..Len(s) : s[i] \in digits
    /\ \E i \in 1..Len(s) : s[i] # "0"

\* digits with at most one point among them and a digit other than 0
PositiveMantissa(m) ==
    /\ \A i \in 1..Len(m) : m[i] \in DecimalDigits \cup {"."}
    /\ \A i, j \in 1..Len(m) : (m[i] = "." /\ m[j] = ".") => i = j
    /\ \E i \in 1..Len(m) : m[i] \in DecimalDigits \ {"0"}

\* ExponentPart after its letter: an optional sign and digits
ExponentDigits(e) ==
    /\ Len(e) > 0
    /\ \A i \in 1..Len(e) : e[i] \in DecimalDigits \/ (i = 1 /\ e[i] \in {"+", "-"})
    /\ \E i \in 1..Len(e) : e[i] \in DecimalDigits

\* the value of a decimal digit, and of a run of them
DigitValue(c) ==
    CASE c = "0" -> 0 [] c = "1" -> 1 [] c = "2" -> 2 [] c = "3" -> 3 [] c = "4" -> 4
      [] c = "5" -> 5 [] c = "6" -> 6 [] c = "7" -> 7 [] c = "8" -> 8 [] c = "9" -> 9

RECURSIVE DecimalValue(_)
DecimalValue(ds) ==
    IF ds = <<>> THEN 0
    ELSE 10 * DecimalValue(SubSeq(ds, 1, Len(ds) - 1)) + DigitValue(ds[Len(ds)])

\* the digits of a mantissa, and those from its first digit other than 0
IsDigit(c) == c \in DecimalDigits
Lead(ds) == CHOOSE i \in 1..Len(ds) : ds[i] # "0" /\ \A j \in 1..(i - 1) : ds[j] = "0"
Significant(m) ==
    SubSeq(SelectSeq(m, IsDigit), Lead(SelectSeq(m, IsDigit)), Len(SelectSeq(m, IsDigit)))

\* the number of digits of a mantissa before its point
WholeDigits(m) ==
    IF \E i \in 1..Len(m) : m[i] = "." THEN (CHOOSE i \in 1..Len(m) : m[i] = ".") - 1
    ELSE Len(m)

\* the exponents the texts of the model can bring into the range of a
\* double: one of more than six digits counts as a million
ExponentCap == 1000000

\* the value of the digits of an exponent
ExponentSize(ds) ==
    IF \A i \in 1..Len(ds) : ds[i] = "0" THEN 0
    ELSE IF Len(ds) - Lead(ds) + 1 > 6 THEN ExponentCap
    ELSE DecimalValue(ds)

\* the value of an ExponentPart after its letter, none being 0
Exponent(e) ==
    IF e = <<>> THEN 0
    ELSE IF e[1] = "-" THEN 0 - ExponentSize(Tail(e))
    ELSE IF e[1] = "+" THEN ExponentSize(Tail(e))
    ELSE ExponentSize(e)

\* the power of ten of the first significant digit of mantissa m with
\* exponent e
Magnitude(m, e) == WholeDigits(m) - Lead(SelectSeq(m, IsDigit)) + Exponent(e)

\* the digits of 2^-1075, half the least double above zero, whose first
\* digit stands for 10^-324: a text is above zero as a number when its
\* value is above this one (a tie rounds to zero)
HalfMinValue ==
    <<2, 4, 7, 0, 3, 2, 8, 2, 2, 9, 2, 0, 6, 2, 3, 2, 7, 2, 0, 8, 8, 2, 8, 4, 3, 9, 6, 4, 3, 4, 1, 1, 0, 6, 8, 6, 1, 8, 2, 5,
     2, 9, 9, 0, 1, 3, 0, 7, 1, 6, 2, 3, 8, 2, 2, 1, 2, 7, 9, 2, 8, 4, 1, 2, 5, 0, 3, 3, 7, 7, 5, 3, 6, 3, 5, 1, 0, 4, 3, 7,
     5, 9, 3, 2, 6, 4, 9, 9, 1, 8, 1, 8, 0, 8, 1, 7, 9, 9, 6, 1, 8, 9, 8, 9, 8, 2, 8, 2, 3, 4, 7, 7, 2, 2, 8, 5, 8, 8, 6, 5,
     4, 6, 3, 3, 2, 8, 3, 5, 5, 1, 7, 7, 9, 6, 9, 8, 9, 8, 1, 9, 9, 3, 8, 7, 3, 9, 8, 0, 0, 5, 3, 9, 0, 9, 3, 9, 0, 6, 3, 1,
     5, 0, 3, 5, 6, 5, 9, 5, 1, 5, 5, 7, 0, 2, 2, 6, 3, 9, 2, 2, 9, 0, 8, 5, 8, 3, 9, 2, 4, 4, 9, 1, 0, 5, 1, 8, 4, 4, 3, 5,
     9, 3, 1, 8, 0, 2, 8, 4, 9, 9, 3, 6, 5, 3, 6, 1, 5, 2, 5, 0, 0, 3, 1, 9, 3, 7, 0, 4, 5, 7, 6, 7, 8, 2, 4, 9, 2, 1, 9, 3,
     6, 5, 6, 2, 3, 6, 6, 9, 8, 6, 3, 6, 5, 8, 4, 8, 0, 7, 5, 7, 0, 0, 1, 5, 8, 5, 7, 6, 9, 2, 6, 9, 9, 0, 3, 7, 0, 6, 3, 1,
     1, 9, 2, 8, 2, 7, 9, 5, 5, 8, 5, 5, 1, 3, 3, 2, 9, 2, 7, 8, 3, 4, 3, 3, 8, 4, 0, 9, 3, 5, 1, 9, 7, 8, 0, 1, 5, 5, 3, 1,
     2, 4, 6, 5, 9, 7, 2, 6, 3, 5, 7, 9, 5, 7, 4, 6, 2, 2, 7, 6, 6, 4, 6, 5, 2, 7, 2, 8, 2, 7, 2, 2, 0, 0, 5, 6, 3, 7, 4, 0,
     0, 6, 4, 8, 5, 4, 9, 9, 9, 7, 7, 0, 9, 6, 5, 9, 9, 4, 7, 0, 4, 5, 4, 0, 2, 0, 8, 2, 8, 1, 6, 6, 2, 2, 6, 2, 3, 7, 8, 5,
     7, 3, 9, 3, 4, 5, 0, 7, 3, 6, 3, 3, 9, 0, 0, 7, 9, 6, 7, 7, 6, 1, 9, 3, 0, 5, 7, 7, 5, 0, 6, 7, 4, 0, 1, 7, 6, 3, 2, 4,
     6, 7, 3, 6, 0, 0, 9, 6, 8, 9, 5, 1, 3, 4, 0, 5, 3, 5, 5, 3, 7, 4, 5, 8, 5, 1, 6, 6, 6, 1, 1, 3, 4, 2, 2, 3, 7, 6, 6, 6,
     7, 8, 6, 0, 4, 1, 6, 2, 1, 5, 9, 6, 8, 0, 4, 6, 1, 9, 1, 4, 4, 6, 7, 2, 9, 1, 8, 4, 0, 3, 0, 0, 5, 3, 0, 0, 5, 7, 5, 3,
     0, 8, 4, 9, 0, 4, 8, 7, 6, 5, 3, 9, 1, 7, 1, 1, 3, 8, 6, 5, 9, 1, 6, 4, 6, 2, 3, 9, 5, 2, 4, 9, 1, 2, 6, 2, 3, 6, 5, 3,
     8, 8, 1, 8, 7, 9, 6, 3, 6, 2, 3, 9, 3, 7, 3, 2, 8, 0, 4, 2, 3, 8, 9, 1, 0, 1, 8, 6, 7, 2, 3, 4, 8, 4, 9, 7, 6, 6, 8, 2,
     3, 5, 0, 8, 9, 8, 6, 3, 3, 8, 8, 5, 8, 7, 9, 2, 5, 6, 2, 8, 3, 0, 2, 7, 5, 5, 9, 9, 5, 6, 5, 7, 5, 2, 4, 4, 5, 5, 5, 0,
     7, 2, 5, 5, 1, 8, 9, 3, 1, 3, 6, 9, 0, 8, 3, 6, 2, 5, 4, 7, 7, 9, 1, 8, 6, 9, 4, 8, 6, 6, 7, 9, 9, 4, 9, 6, 8, 3, 2, 4,
     0, 4, 9, 7, 0, 5, 8, 2, 1, 0, 2, 8, 5, 1, 3, 1, 8, 5, 4, 5, 1, 3, 9, 6, 2, 1, 3, 8, 3, 7, 7, 2, 2, 8, 2, 6, 1, 4, 5, 4,
     3, 7, 6, 9, 3, 4, 1, 2, 5, 3, 2, 0, 9, 8, 5, 9, 1, 3, 2, 7, 6, 6, 7, 2, 3, 6, 3, 2, 8, 1, 2, 5>>

\* the significant digits ds are a decimal above those of HalfMinValue,
\* which zeros follow
AboveHalfMin(ds, half) ==
    \E i \in 1..Len(ds) :
        /\ DigitValue(ds[i]) > (IF i <= Len(half) THEN half[i] ELSE 0)
        /\ \A j \in 1..(i - 1) :
              DigitValue(ds[j]) = (IF j <= Len(half) THEN half[j] ELSE 0)

\* the mantissa m with the exponent e is a number above zero
DecimalAbove(m, e) ==
    /\ PositiveMantissa(m)
    /\ \/ Magnitude(m, e) > -324
       \/ Magnitude(m, e) = -324 /\ AboveHalfMin(Significant(m), HalfMinValue)

\* ToNumber of an unsigned StrDecimalLiteral is above zero
PositiveDecimal(u) ==
    \/ u = InfinityChars
    \/ DecimalAbove(u, <<>>)
    \/ \E p \in 2..(Len(u) - 1) :
          /\ u[p] \in {"e", "E"}
          /\ ExponentDigits(SubSeq(u, p + 1, Len(u)))
          /\ DecimalAbove(SubSeq(u, 1, p - 1), SubSeq(u, p + 1, Len(u)))

\* a NonDecimalIntegerLiteral above zero
PositiveNonDecimal(u) ==
    /\ Len(u) > 2
    /\ u[1] = "0"
    /\ \/ u[2] \in {"x", "X"} /\ PositiveIn(SubSeq(u, 3, Len(u)), HexDigits)
       \/ u[2] \in {"o", "O"} /\ PositiveIn(SubSeq(u, 3, Len(u)), OctalDigits)
       \/ u[2] \in {"b", "B"} /\ PositiveIn(SubSeq(u, 3, Len(u)), BinaryDigits)

\* ToNumber(text) > 0
PositiveText(s) ==
    \/ PositiveNonDecimal(Trimmed(s))
    \/ PositiveDecimal(IF Trimmed(s) # <<>> /\ Trimmed(s)[1] = "+"
                       THEN Tail(Trimmed(s)) ELSE Trimmed(s))

\* value > 0 for a value that can be converted: ToNumber of the value is
\* above zero.  An array is the number its text gives; undefined and objects
\* give NaN, null gives 0.
Positive(v) ==
    CASE v.t = "number" -> v.n > 0
      [] v.t = "boolean" -> v.b
      [] v.t = "string" -> PositiveText(v.s)
      [] v.t = "array" -> PositiveText(JsString(v))
      [] OTHER -> FALSE

\* value.length on a value that is not null or undefined
Length(v) ==
    CASE v.t = "array" -> JNum(Len(v.a))
      [] v.t = "string" -> JNum(Len(v.s))
      [] v.t = "function" -> JNum(IF v.name \in {"constructor", "hasOwnProperty",
                                                  "isPrototypeOf", "propertyIsEnumerable",
                                                  "__lookupGetter__", "__lookupSetter__"}
                                   THEN 1
                                   ELSE IF v.name \in {"__defineGetter__", "__defineSetter__"}
                                   THEN 2 ELSE 0)
      [] OTHER -> Get(v, "length")

KwPtcl == <<"p", "t", "c", "l", " ", "p", "r", "i", "v", "a", "t", "i", "z", "a", "t",
            "i", "o", "n">>
Kw3G4G == <<"3", "g", "/", "4", "g">>
KwSpectrum == <<"s", "p", "e", "c", "t", "r", "u", "m", " ", "a", "u", "c", "t", "i",
                "o", "n">>
KwPolicy == <<"d", "i", "g", "i", "t", "a", "l", " ", "p", "a", "k", "i", "s", "t", "a",
              "n", " ", "p", "o", "l", "i", "c", "y">>
KwRaast == <<"r", "a", "a", "s", "t">>
KwCovid == <<"c", "o", "v", "i", "d">>

(***************************************************************************)
(* TemplateRenderer                                                        *)
(***************************************************************************)
\* the keys of templateMappings in compileAllTemplates
TemplateNames == {"heroStats", "historicalEvents", "statistics", "companies",
                  "socialMedia", "policies", "infrastructure"}

\* requiredTemplates in isReady
requiredTemplates == {"heroStats", "historicalEvents", "statistics", "companies",
                      "socialMedia"}

\* contentSelectors: the render targets
contentSelectors == {"#heroStats", "#ptclPrivatization", "#foundationMilestones",
                     "#foundationStats", "#foundationTimeline", "#mobile3G4G",
                     "#socialMediaGrowth", "#digitalPakistanPolicy", "#raastRevolution",
                     "#mobileBanking", "#investmentBoom", "#covidImpact",
                     "#fiveGFuture", "#digitalDivide"}

\* every template of the page is required
isReadyEvery(compiled) == \A template \in TemplateNames : template \in DOMAIN compiled

\* TemplateRenderer.isReady
isReady(compiled) == \A template \in requiredTemplates : template \in DOMAIN compiled

\* The source of a template element (its innerHTML), character by
\* character: none, white space only, a template between line breaks, a
\* block that is never closed.  Handlebars.compile parses a source when the
\* compiled template is first executed, so a malformed source compiles and
\* its execution throws.
EmptySource == <<>>
BlankSource == <<"\n", " ", " ", "\t">>
ValidSource == <<"\n", " ", "{", "{", "t", "e", "m", "p", "l", "a", "t", "e", "}", "}", "\n">>
MalformedSource == <<"{", "{", "#", "e", "a", "c", "h">>

\* the message of the error Handlebars throws for a malformed source
ParseError == "Parse error on line 1"

\* compileTemplate returns without compiling (lines 63-73): the page has no
\* element for the template, or the source of the element trims to nothing
NotCompiled(elements, templateName) ==
    \/ templateName \notin DOMAIN elements
    \/ Trimmed(elements[templateName]) = <<>>

\* TemplateRenderer.compileAllTemplates with compileTemplate, on the empty
\* map the constructor made: the templates compiled, each with its source
compileAllTemplates(elements) ==
    [name \in {n \in TemplateNames : ~NotCompiled(elements, n)} |-> elements[name]]

\* A rendering in progress: the view (target -> content), the render calls
\* that returned so far with their outcomes, and whether an exception escaped.
Rendering(view) == [view |-> view, calls |-> <<>>, thrown |-> FALSE]

\* the selectors document.querySelector rejects with a SyntaxError
InvalidSelectors == {"", "#"}

\* what a successful render call leaves in its target
Html(templateName, data) == [kind |-> "html", template |-> templateName, data |-> data]

\* what handleRenderError leaves in the target
Placeholder(templateName, message) ==
    [kind |-> "render-error", template |-> templateName, message |-> message]

\* what clearAllContent leaves in a target
Loading == [kind |-> "loading"]

\* what a target holds after a call that returned a text
Text(chars) == [kind |-> "text", text |-> chars]

\* this.compiledTemplates[templateName] is truthy (line 95).  The templates
\* are kept in an object literal: a name that is not a compiled template
\* finds the member of Object.prototype of that name.
Found(compiled, templateName) ==
    templateName \in DOMAIN compiled \/ templateName \in ObjectPrototype

\* the functions of Object.prototype that expect a function, and those
\* that convert their argument: to the key of a property, or, for what
\* Object(data) returns, to the text innerHTML takes
ExpectFunction == {"__defineGetter__", "__defineSetter__"}
ConvertArgument == {"constructor", "hasOwnProperty", "propertyIsEnumerable",
                    "__lookupGetter__", "__lookupSetter__"}

\* lines 116-119 throw on a member of Object.prototype: Object.prototype
\* itself is not a function, a function of ExpectFunction is given data that
\* is no function, one of ConvertArgument data that cannot be converted
PrototypeThrows(templateName, data) ==
    \/ templateName = "__proto__"
    \/ templateName \in ExpectFunction
    \/ templateName \in ConvertArgument /\ Unconvertible(data)

\* the message of that TypeError
NotAFunction == "this.compiledTemplates[templateName] is not a function"
PrototypeError(templateName, data) ==
    IF templateName = "__proto__" THEN NotAFunction
    ELSE IF templateName \in ExpectFunction
    THEN "Object.prototype." \o templateName \o ": Expecting function"
    ELSE CannotConvert.message

\* what __lookupGetter__ and __lookupSetter__ find under a key on the
\* compiled templates: the accessor of __proto__, nothing under any other
LookedUp(accessor, key) ==
    IF key = Spelled("__proto__") THEN JFun(accessor \o " __proto__") ELSE Undefined

\* the text innerHTML takes from what a function of Object.prototype
\* returns when line 116 calls it, on the compiled templates, with data
PrototypeResult(compiled, templateName, data) ==
    CASE templateName \in {"toString", "toLocaleString", "valueOf"} -> JsString(JObj(<<>>))
      [] templateName = "constructor" -> JsString(data)
      [] templateName \in {"hasOwnProperty", "propertyIsEnumerable"} ->
            JsString(JBool(\E name \in DOMAIN compiled : Spelled(name) = JsString(data)))
      [] templateName = "isPrototypeOf" -> JsString(JBool(FALSE))
      [] templateName = "__lookupGetter__" -> JsString(LookedUp("get", JsString(data)))
      [] templateName = "__lookupSetter__" -> JsString(LookedUp("set", JsString(data)))

\* the outcome of renderTemplate's guards
Renders(compiled, templateName, data, target, view) ==
    /\ Found(compiled, templateName)
    /\ Truthy(data)
    /\ target \in DOMAIN view

\* the target is left as it is
handleRenderErrorSilent(view, templateName, targetSelector, message) == view

\* TemplateRenderer.handleRenderError for a selector querySelector accepts
handleRenderError(view, templateName, targetSelector, message) ==
    IF targetSelector \in DOMAIN view
    THEN [view EXCEPT ![targetSelector] = Placeholder(templateName, message)]
    ELSE view

\* an exception escapes the rendering
Throw(r) == [r EXCEPT !.thrown = TRUE]

\* a failed call ends the rendering
CallAborts(r, templateName, target, ok, view) ==
    [view |-> view,
     calls |-> Append(r.calls, [template |-> templateName, target |-> target, ok |-> ok]),
     thrown |-> ~ok]

\* a call of renderTemplate returns ok and leaves the view
CallEnds(r, templateName, target, ok, view) ==
    [view |-> view,
     calls |-> Append(r.calls, [template |-> templateName, target |-> target, ok |-> ok]),
     thrown |-> FALSE]

\* TemplateRenderer.renderTemplate, as one more call of the rendering r.  A
\* selector querySelector rejects makes it throw at line 107 and again in
\* handleRenderError (line 303), which no handler catches.
renderTemplate(r, compiled, templateName, data, target) ==
    IF r.thrown THEN r
    ELSE IF ~Found(compiled, templateName) \/ ~Truthy(data)
    THEN CallEnds(r, templateName, target, FALSE, r.view)
    ELSE IF target \in InvalidSelectors
    THEN Throw(r)
    ELSE IF target \notin DOMAIN r.view
    THEN CallEnds(r, templateName, target, FALSE, r.view)
    ELSE IF templateName \notin DOMAIN compiled /\ PrototypeThrows(templateName, data)
    THEN CallEnds(r, templateName, target, FALSE,
                  handleRenderError(r.view, templateName, target,
                                    PrototypeError(templateName, data)))
    ELSE IF templateName \notin DOMAIN compiled
    THEN CallEnds(r, templateName, target, TRUE,
                  [r.view EXCEPT ![target] =
                      Text(PrototypeResult(compiled, templateName, data))])
    ELSE IF compiled[templateName] = MalformedSource
    THEN CallEnds(r, templateName, target, FALSE,
                  handleRenderError(r.view, templateName, target, ParseError))
    ELSE CallEnds(r, templateName, target, TRUE,
                  [r.view EXCEPT ![target] = Html(templateName, data)])

\* events.find(event => event.title.toLowerCase().includes(k) || ...) for the
\* keywords k of Match, from element i on: the index of the first match, 0
\* for none, -1 for a TypeError
RECURSIVE FindFrom(_, _, _)
FindFrom(events, Match, i) ==
    IF i > Len(events.a) THEN 0
    ELSE LET event == events.a[i]
             title == Get(event, "title")
         IN  IF IsNullish(event) \/ title.t # "string" THEN -1
             ELSE IF \E k \in Match : includes(toLowerCase(title.s), k) THEN i
             ELSE FindFrom(events, Match, i + 1)

\* events.find(...): a TypeError as well when events is not an array
find(events, Match) == IF ~IsArray(events) THEN -1 ELSE FindFrom(events, Match, 1)

\* the keyword slots: find the event, render it when there is one
EventSlot(r, compiled, events, Match, target) ==
    IF r.thrown THEN r
    ELSE LET i == find(events, Match)
         IN  IF i = -1 THEN Throw(r)
             ELSE IF i = 0 THEN r
             ELSE renderTemplate(r, compiled, "historicalEvents",
                                 JObj(<<<<"events", JArr(<<events.a[i]>>)>>>>), target)

MatchPtcl == {KwPtcl}
Match3G4G == {Kw3G4G, KwSpectrum}
MatchPolicy == {KwPolicy}
MatchRaast == {KwRaast}
MatchCovid == {KwCovid}

\* the hero statistics go to the target of the foundation milestones
renderHeroStatsElsewhere(r, compiled, heroStatsData) ==
    renderTemplate(r, compiled, "heroStats", JObj(<<<<"heroStats", heroStatsData>>>>),
                   "#foundationMilestones")

\* TemplateRenderer.renderHeroStats
renderHeroStats(r, compiled, heroStatsData) ==
    renderTemplate(r, compiled, "heroStats", JObj(<<<<"heroStats", heroStatsData>>>>),
                   "#heroStats")

\* a || b
OrElse(a, b) == IF Truthy(a) THEN a ELSE b

\* foundationData.events && foundationData.events.length > 0: the value of
\* the expression, or the TypeError of a length that cannot be converted
NonEmptyList(v) ==
    IF ~Truthy(v) THEN v
    ELSE IF Unconvertible(Length(v)) THEN CannotConvert
    ELSE JBool(Positive(Length(v)))

\* TemplateRenderer.renderFoundationEra on data that is not null or
\* undefined
renderFoundationEraOf(r, compiled, foundationData) ==
    LET events == Get(foundationData, "events")
        r1 == IF NonEmptyList(events) = CannotConvert THEN Throw(r)
              ELSE IF Truthy(NonEmptyList(events))
              THEN EventSlot(r, compiled, events, MatchPtcl, "#ptclPrivatization")
              ELSE r
        r2 == renderTemplate(r1, compiled, "historicalEvents",
                             JObj(<<<<"events", events>>>>), "#foundationMilestones")
        r3 == renderTemplate(r2, compiled, "statistics",
                             JObj(<<<<"yearlyStats", Get(foundationData, "yearlyStats")>>>>),
                             "#foundationStats")
    IN  renderTemplate(r3, compiled, "historicalEvents",
                       JObj(<<<<"events", events>>>>), "#foundationTimeline")

\* TemplateRenderer.renderFoundationEra: foundationData.events (line 147) is
\* a TypeError on null and undefined
renderFoundationEra(r, compiled, foundationData) ==
    IF IsNullish(foundationData) THEN Throw(r)
    ELSE renderFoundationEraOf(r, compiled, foundationData)

\* `${value}`
TemplateString(v) == IF Unconvertible(v) THEN CannotConvert ELSE JStr(JsString(v))

\* icons[key] for a key that is a string: the icon the literal declares
\* (named here by what it shows), the member of Object.prototype of that
\* name, or undefined
IconOf(key) ==
    CASE key = <<"F", "a", "c", "e", "b", "o", "o", "k">> -> JStr(<<"book">>)
      [] key = <<"Y", "o", "u", "T", "u", "b", "e">> -> JStr(<<"camera">>)
      [] key = <<"W", "h", "a", "t", "s", "A", "p", "p">> -> JStr(<<"speech">>)
      [] key = <<"T", "i", "k", "T", "o", "k">> -> JStr(<<"note">>)
      [] key = <<"T", "w", "i", "t", "t", "e", "r">> -> JStr(<<"bird">>)
      [] key = <<"I", "n", "s", "t", "a", "g", "r", "a", "m">> -> JStr(<<"photo">>)
      [] key = Spelled("__proto__") -> ObjectPrototypeValue
      [] \E name \in ObjectPrototype : key = Spelled(name) ->
            JFun(CHOOSE name \in ObjectPrototype : key = Spelled(name))
      [] OTHER -> Undefined

\* TemplateRenderer.getSocialMediaIcon: icons[platform] || the phone; the
\* key of the lookup is the text of platform, a TypeError when platform
\* cannot be converted
getSocialMediaIcon(platform) ==
    IF Unconvertible(platform) THEN CannotConvert
    ELSE OrElse(IconOf(JsString(platform)), JStr(<<"phone">>))

\* the shape renderMobileEra gives a platform (lines 190-196): a TypeError
\* for null and undefined, for a platform that cannot be the key of an icon
\* and for a ranking that cannot be converted where there is no penetration
PlatformShape(platform) ==
    IF IsNullish(platform) THEN CannotRead(platform, "platform")
    ELSE IF \/ Unconvertible(Get(platform, "platform"))
            \/ /\ ~Truthy(Get(platform, "penetration"))
               /\ Unconvertible(Get(platform, "ranking"))
    THEN CannotConvert
    ELSE
    JObj(<<<<"icon", getSocialMediaIcon(Get(platform, "platform"))>>,
           <<"name", Get(platform, "platform")>>,
           <<"users", OrElse(Get(platform, "users"), Get(platform, "peakUsers"))>>,
           <<"penetration", OrElse(Get(platform, "penetration"),
                                   TemplateString(Get(platform, "ranking")))>>,
           <<"note", OrElse(Get(platform, "note"), Get(platform, "status"))>>>>)

\* the shape renderFintechEra gives a mobile banking service
ServiceShape(service) ==
    IF IsNullish(service) THEN CannotRead(service, "service")
    ELSE
    JObj(<<<<"name", Get(service, "service")>>,
           <<"marketShare", JStr(<<>>)>>,
           <<"subscribers", OrElse(Get(service, "users"),
                                   JStr(<<"M", "a", "r", "k", "e", "t", " ", "l", "e",
                                          "a", "d", "e", "r">>))>>,
           <<"founded", Get(service, "parent")>>,
           <<"keyMilestone", Get(service, "description")>>>>)

\* the shape renderFintechEra gives a funded company
CompanyShape(company) ==
    IF IsNullish(company) THEN CannotRead(company, "company")
    ELSE
    JObj(<<<<"name", Get(company, "company")>>,
           <<"marketShare", JStr(<<>>)>>,
           <<"subscribers", Get(company, "funding")>>,
           <<"founded", Get(company, "type")>>,
           <<"keyMilestone", OrElse(Get(company, "note"),
                                    JStr(<<"F", "i", "n", "t", "e", "c", "h", " ", "s",
                                           "t", "a", "r", "t", "u", "p">>))>>>>)

\* the callback a render call maps over its array
Shaped(shape, element) ==
    CASE shape = "platform" -> PlatformShape(element)
      [] shape = "service" -> ServiceShape(element)
      [] shape = "company" -> CompanyShape(element)

\* array.map(callback) on an array
Map(array, shape) == JArr([i \in 1..Len(array.a) |-> Shaped(shape, array.a[i])])

\* array.map(callback) returns: array is an array (the other values of a
\* document have no map to call) and the callback throws on no element
CanMap(array, shape) ==
    /\ IsArray(array)
    /\ \A i \in 1..Len(array.a) : Shaped(shape, array.a[i]).t # "TypeError"

\* a render call whose data is array.map(callback)
MappedSlot(r, compiled, templateName, key, array, shape, target) ==
    IF r.thrown THEN r
    ELSE IF ~CanMap(array, shape) THEN Throw(r)
    ELSE renderTemplate(r, compiled, templateName,
                        JObj(<<<<key, Map(array, shape)>>>>), target)

\* TemplateRenderer.renderMobileEra
renderMobileEra(r, compiled, mobileData) ==
    LET events == Get(mobileData, "events")
        r1 == EventSlot(r, compiled, events, Match3G4G, "#mobile3G4G")
        r2 == MappedSlot(r1, compiled, "socialMedia", "platforms",
                         Get(mobileData, "socialMediaGrowth"), "platform",
                         "#socialMediaGrowth")
    IN  EventSlot(r2, compiled, events, MatchPolicy, "#digitalPakistanPolicy")

\* TemplateRenderer.renderFintechEra
renderFintechEra(r, compiled, fintechData) ==
    LET r1 == EventSlot(r, compiled, Get(fintechData, "events"), MatchRaast,
                        "#raastRevolution")
        r2 == MappedSlot(r1, compiled, "companies", "companies",
                         Get(fintechData, "mobileBanking"), "service", "#mobileBanking")
    IN  MappedSlot(r2, compiled, "companies", "companies",
                   Get(fintechData, "investmentBoom"), "company", "#investmentBoom")

\* the card renderSidebarContent builds for the 5G future
FiveGCard(fiveG) ==
    JObj(<<<<"name", JStr(<<"5G Commercial Launch">>)>>, <<"icon", JStr(<<"rocket">>)>>,
           <<"specifications",
             JArr(<<JObj(<<<<"label", JStr(<<"Launch Timeline">>)>>,
                           <<"value", Get(fiveG, "launchTimeline")>>>>),
                    JObj(<<<<"label", JStr(<<"Test Speeds">>)>>,
                           <<"value", Get(fiveG, "testSpeeds")>>>>),
                    JObj(<<<<"label", JStr(<<"Regional First">>)>>,
                           <<"value", Get(fiveG, "regionalFirst")>>>>)>>)>>>>)

\* `${a}<sep>${b}`
Versus(a, sep, b) ==
    IF Unconvertible(a) \/ Unconvertible(b) THEN CannotConvert
    ELSE JStr(TemplateString(a).s \o sep \o TemplateString(b).s)

\* the three values of the card of the digital divide, lines 286-288
DivideValues(divides) ==
    <<Versus(Get(Get(divides, "genderGap"), "percentage"), <<" (World's highest)">>,
             JStr(<<>>)),
      Versus(Get(Get(divides, "genderGap"), "menAccess"), <<" vs ">>,
             Get(Get(divides, "genderGap"), "womenAccess")),
      Versus(Get(Get(divides, "geographicGap"), "urbanAccess"), <<" vs ">>,
             Get(Get(divides, "geographicGap"), "ruralAccess"))>>

\* the card renderSidebarContent builds for the digital divide (lines
\* 282-290): a TypeError when a gap is null or undefined and when a value
\* cannot be converted
DivideCard(divides) ==
    IF IsNullish(Get(divides, "genderGap"))
    THEN CannotRead(Get(divides, "genderGap"), "percentage")
    ELSE IF \/ Unconvertible(Get(Get(divides, "genderGap"), "percentage"))
            \/ Unconvertible(Get(Get(divides, "genderGap"), "menAccess"))
            \/ Unconvertible(Get(Get(divides, "genderGap"), "womenAccess"))
    THEN CannotConvert
    ELSE IF IsNullish(Get(divides, "geographicGap"))
    THEN CannotRead(Get(divides, "geographicGap"), "urbanAccess")
    ELSE IF \/ Unconvertible(Get(Get(divides, "geographicGap"), "urbanAccess"))
            \/ Unconvertible(Get(Get(divides, "geographicGap"), "ruralAccess"))
    THEN CannotConvert
    ELSE
    JObj(<<<<"name", JStr(<<"Digital Divide Challenges">>)>>,
           <<"icon", JStr(<<"scales">>)>>,
           <<"specifications",
             JArr(<<JObj(<<<<"label", JStr(<<"Gender Gap">>)>>,
                           <<"value", DivideValues(divides)[1]>>>>),
                    JObj(<<<<"label", JStr(<<"Men vs Women">>)>>,
                           <<"value", DivideValues(divides)[2]>>>>),
                    JObj(<<<<"label", JStr(<<"Urban vs Rural">>)>>,
                           <<"value", DivideValues(divides)[3]>>>>)>>)>>>>)

\* renderSidebarContent, lines 255-263: the COVID impact
CovidSlot(r, compiled, allData) ==
    IF r.thrown \/ ~Truthy(Get(allData, "mobileEra")) THEN r
    ELSE EventSlot(r, compiled, Get(Get(allData, "mobileEra"), "events"), MatchCovid,
                   "#covidImpact")

\* renderSidebarContent, lines 266-278: the 5G future
FiveGSlot(r, compiled, allData) ==
    IF r.thrown \/ ~Truthy(Get(allData, "fiveGFuture")) THEN r
    ELSE renderTemplate(r, compiled, "infrastructure",
             JObj(<<<<"infrastructure",
                     JArr(<<FiveGCard(Get(allData, "fiveGFuture"))>>)>>>>),
             "#fiveGFuture")

\* renderSidebarContent, lines 281-293: the digital divide
DivideSlot(r, compiled, allData) ==
    IF r.thrown \/ ~Truthy(Get(allData, "digitalDivides")) THEN r
    ELSE IF DivideCard(Get(allData, "digitalDivides")).t = "TypeError"
    THEN Throw(r)
    ELSE renderTemplate(r, compiled, "infrastructure",
             JObj(<<<<"infrastructure",
                     JArr(<<DivideCard(Get(allData, "digitalDivides"))>>)>>>>),
             "#digitalDivide")

\* TemplateRenderer.renderSidebarContent: allData.mobileEra (line 255) is a
\* TypeError on null and undefined
renderSidebarContent(r, compiled, allData) ==
    IF IsNullish(allData) THEN Throw(r)
    ELSE DivideSlot(FiveGSlot(CovidSlot(r, compiled, allData), compiled, allData),
                    compiled, allData)

\* TemplateRenderer.clearAllContent: every target the page has shows the
\* loading placeholder (line 347)
clearAllContent(view) == [target \in DOMAIN view |-> Loading]

\* renderAllContent, lines 214-216
HeroSection(r, compiled, historicalData) ==
    IF r.thrown \/ ~Truthy(Get(historicalData, "heroStats")) THEN r
    ELSE renderHeroStats(r, compiled, Get(historicalData, "heroStats"))

\* renderAllContent, lines 219-221
FoundationSection(r, compiled, historicalData) ==
    IF r.thrown \/ ~Truthy(Get(historicalData, "foundationEra")) THEN r
    ELSE renderFoundationEra(r, compiled, Get(historicalData, "foundationEra"))

\* renderAllContent, lines 224-226
MobileSection(r, compiled, historicalData) ==
    IF r.thrown \/ ~Truthy(Get(historicalData, "mobileEra")) THEN r
    ELSE renderMobileEra(r, compiled, Get(historicalData, "mobileEra"))

\* renderAllContent, lines 229-231
FintechSection(r, compiled, historicalData) ==
    IF r.thrown \/ ~Truthy(Get(historicalData, "fintechEra")) THEN r
    ELSE renderFintechEra(r, compiled, Get(historicalData, "fintechEra"))

\* renderAllContent, line 234
SidebarSection(r, compiled, historicalData) ==
    IF r.thrown THEN r ELSE renderSidebarContent(r, compiled, historicalData)

\* the render calls of PakistanTimelineApp.renderAllContent, lines 214-235
RenderSections(view, compiled, historicalData) ==
    SidebarSection(
        FintechSection(
            MobileSection(
                FoundationSection(
                    HeroSection(Rendering(view), compiled, historicalData),
                    compiled, historicalData),
                compiled, historicalData),
            compiled, historicalData),
        compiled, historicalData)

\* the outcomes a function pushed on its success array: the calls that
\* returned while it took the rendering from r0 to r1
Pushed(r0, r1) == SubSeq(r1.calls, Len(r0.calls) + 1, Len(r1.calls))

\* success.some(result => result === true)
some(success) == \E i \in 1..Len(success) : success[i].ok

\* success.every(result => result === true)
every(success) == \A i \in 1..Len(success) : success[i].ok

\* what a direct call of renderTemplate gives its caller
TemplateReturns(r1) ==
    IF r1.thrown THEN "throws"
    ELSE IF r1.calls[Len(r1.calls)].ok THEN "true" ELSE "false"

\* what renderFoundationEra, renderMobileEra and renderFintechEra give
\* their caller: the last line of each
EraReturns(r0, r1) ==
    IF r1.thrown THEN "throws"
    ELSE IF every(Pushed(r0, r1)) THEN "true" ELSE "false"

\* renderSidebarContent and renderAllContent have no return statement
NothingReturned(r1) == IF r1.thrown THEN "throws" ELSE "undefined"

(***************************************************************************)
(* Documents the server may hold                                           *)
(***************************************************************************)
S(chars) == JStr(chars)

EmptyList == JArr(<<>>)

FoundationEra == JObj(<<<<"events", EmptyList>>, <<"yearlyStats", EmptyList>>>>)
MobileEra == JObj(<<<<"events", EmptyList>>, <<"socialMediaGrowth", EmptyList>>>>)
FintechEra ==
    JObj(<<<<"events", EmptyList>>, <<"mobileBanking", EmptyList>>,
           <<"investmentBoom", EmptyList>>>>)

\* a document that validates
DocValid ==
    JObj(<<<<"heroStats", EmptyList>>, <<"foundationEra", FoundationEra>>,
           <<"mobileEra", MobileEra>>, <<"fintechEra", FintechEra>>>>)

\* a document whose two service lists hold null, a number, a string and an
\* object without fields
DocServices ==
    JObj(<<<<"heroStats", EmptyList>>, <<"foundationEra", FoundationEra>>,
           <<"mobileEra", MobileEra>>,
           <<"fintechEra",
             JObj(<<<<"events", EmptyList>>,
                    <<"mobileBanking", JArr(<<JNull, JNum(5), S(<<"x">>)>>)>>,
                    <<"investmentBoom", JArr(<<JObj(<<>>)>>)>>>>)>>>>)

\* foundationEra.yearlyStats absent
DocNoYearlyStats ==
    JObj(<<<<"heroStats", EmptyList>>,
           <<"foundationEra", JObj(<<<<"events", EmptyList>>>>)>>,
           <<"mobileEra", MobileEra>>, <<"fintechEra", FintechEra>>>>)

\* mobileEra.events absent
DocNoMobileEvents ==
    JObj(<<<<"heroStats", EmptyList>>, <<"foundationEra", FoundationEra>>,
           <<"mobileEra", JObj(<<<<"socialMediaGrowth", EmptyList>>>>)>>,
           <<"fintechEra", FintechEra>>>>)

\* what historical_events.json may parse to
PrimaryDocs == <<DocValid, DocNoYearlyStats, DocNoMobileEvents, JNull, JBool(FALSE),
                 JNum(0), S(<<>>)>>

\* what an optional file may parse to
OptionalDocs == <<JObj(<<>>), JNull>>

\* the bodies the server may send: the JSON text of each document, and a
\* text JSON.parse rejects
PrimaryBodies == [i \in 1..Len(PrimaryDocs) |-> [form |-> "json", value |-> PrimaryDocs[i]]]
                    \o <<[form |-> "malformed"]>>
OptionalBodies == [i \in 1..Len(OptionalDocs) |-> [form |-> "json", value |-> OptionalDocs[i]]]
                     \o <<[form |-> "malformed"]>>

(***************************************************************************)
(* PakistanTimelineApp                                                     *)
(***************************************************************************)
\* config.retryAttempts, config.retryDelay
retryAttempts == 3
retryDelay == 1000
\* maxWait and checkInterval of waitForTemplatesReady
maxWait == 10000
checkInterval == 100

\* how many times the retry trigger is invoked
MaxRetries == 2

Passes == 1..(1 + MaxRetries)

File(name) == [dir |-> "data", name |-> name, ext |-> ".json"]

\* the file loadAllData loads first
primaryFile == File("historical_events")

\* optionalFiles of loadOptionalDataFiles
optionalFiles == <<File("statistics"), File("companies"), File("social_media"),
                   File("policies"), File("infrastructure")>>

NumFiles == 1 + Len(optionalFiles)

\* the i-th file a pass loads
FileAt(i) == IF i = 1 THEN primaryFile ELSE optionalFiles[i - 1]

PathOf(file) == file.dir \o "/" \o file.name \o file.ext

\* file.split('/')[1].replace('.json', '')
fileName(file) == IF file.ext = ".json" THEN file.name ELSE file.name \o file.ext

\* no file is treated as critical
IsCriticalNever(filePath) == FALSE

\* filePath.includes('historical_events.json')
IsCritical(filePath) == filePath.name \o filePath.ext = "historical_events.json"

\* Errors carry their message as a sequence of fragments; message.includes
\* looks for a fragment.
NoError == [message |-> <<>>]
Error(message) == [message |-> message]
MessageIncludes(error, phrase) ==
    \E i \in 1..Len(error.message) : error.message[i] = phrase

\* what fetch() and response.text() may deliver
Network == [kind |-> "network"]
Http(status, statusText) ==
    [kind |-> "http", status |-> status, statusText |-> statusText]
Body(text) == [kind |-> "body", text |-> text]
NoResponse == [kind |-> "none"]
EmptyText == [form |-> "empty"]
Malformed == [form |-> "malformed"]
JsonText(v) == [form |-> "json", value |-> v]

\* the answers that make an attempt fail: fetch rejects, the status is not
\* a success, the body is empty, the body is not JSON
FailingResponses == <<Network, Http(404, "Not Found"), Body(EmptyText), Body(Malformed)>>

\* the error one attempt of loadJSONFile catches, NoError when it returns
AttemptError(response) ==
    CASE response.kind = "network" -> Error(<<"Failed to fetch">>)
      [] response.kind = "http" ->
            Error(<<"HTTP ", ToString(response.status), ": ", response.statusText>>)
      [] response.kind = "body" /\ ~validateJSONString(response.text).success ->
            Error(<<validateJSONString(response.text).error>>)
      [] OTHER -> NoError

\* How a server treats a file: a fetch of a flaky file is answered with
\* anything, of a sound file with the text of a truthy document, and the
\* fetch of a file that is down is rejected.  loadJSONFile treats the six
\* files alike.  historical_events.json is flaky on every server of the
\* model; of the five optional files any n or fewer are flaky and the
\* others sound, n being a bound of the model, or all five are down.
Flaky(files) ==
    [f \in 1..NumFiles |-> IF f = 1 \/ f \in files THEN "flaky" ELSE "sound"]
OptionalDown == [f \in 1..NumFiles |-> IF f = 1 THEN "flaky" ELSE "down"]
ServersOf(n) ==
    {Flaky(files) : files \in {fs \in SUBSET (2..NumFiles) : Cardinality(fs) <= n}}
        \cup {OptionalDown}

\* the optional files that may be flaky at once
MaxFlaky == 1

Servers == ServersOf(MaxFlaky)

\* the server sv may answer the fetch of file f with the failure resp
MayFail(sv, f, resp) ==
    \/ sv[f] = "flaky" /\ AttemptError(resp) # NoError
    \/ sv[f] = "down" /\ resp = Network

\* the server sv may deliver the text of value for file f
MayDeliver(sv, f, value) == sv[f] = "flaky" \/ (sv[f] = "sound" /\ Truthy(value))

\* lastError keeps the first error caught
CaughtFirst(lastError, error) == IF lastError = NoError THEN error ELSE lastError

\* lastError = error
Caught(lastError, error) == error

\* the same delay after every attempt
BackoffFlat(attempt) == retryDelay

\* this.config.retryDelay * attempt, line 182
Backoff(attempt) == retryDelay * attempt

\* the loop of loadJSONFile has no budget
HasAttemptsLeftAlways(attempt) == TRUE

\* attempt < this.config.retryAttempts
HasAttemptsLeft(attempt) == attempt < retryAttempts

\* the error loadJSONFile raises for the critical file
CriticalError(filePath, lastError) ==
    Error(<<"Failed to load critical data", " file: ", PathOf(filePath),
            ". Last error: ">> \o lastError.message)

TemplatesError == Error(<<"Templates failed to compile", " within timeout period">>)
NoDataError == Error(<<"No historical data available for rendering">>)
RenderTypeError == Error(<<"TypeError">>)

\* the template category is checked before the load category
userMessageTemplatesFirst(error) ==
    IF MessageIncludes(error, "Templates failed to compile") THEN "templates"
    ELSE IF MessageIncludes(error, "Failed to load critical data") THEN "load"
    ELSE "other"

\* the message handleAppError shows
userMessage(error) ==
    IF MessageIncludes(error, "Failed to load critical data") THEN "load"
    ELSE IF MessageIncludes(error, "Templates failed to compile") THEN "templates"
    ELSE "other"

\* if (data), if (primaryData): what a load returned is used
ShouldStore(value) == Truthy(value)

\* this.data[key] = value
Store(d, key, value) ==
    [k \in DOMAIN d \cup {key} |-> IF k = key THEN value ELSE d[k]]

\* the primary data is stored only when it validates
UsePrimaryStrict(d, primaryData, validationResult) ==
    IF validationResult.success THEN Store(d, "historical_events", primaryData) ELSE d

\* loadAllData, lines 104-110: the primary data is stored whatever the
\* validation result says
UsePrimary(d, primaryData, validationResult) ==
    Store(d, "historical_events", primaryData)

\* this.data.historical_events, undefined when never stored
HistoricalData(d) ==
    IF "historical_events" \in DOMAIN d THEN d["historical_events"] ELSE Undefined

\* the template sources the page may carry
AllTemplates == [name \in TemplateNames |-> ValidSource]
AllButStatistics == [name \in TemplateNames \ {"statistics"} |-> ValidSource]
TemplateSets == {AllTemplates, AllButStatistics}

\* the render targets the page may carry
TargetSets == {contentSelectors}

VARIABLES
    templateElements,   \* the template sources present in the page, by name
    domTargets,         \* the render targets present in the page
    readyState,         \* document.readyState
    server,             \* how the server treats each file
    compiledTemplates,  \* renderer.compiledTemplates (the source of each)
    data,               \* app.data
    validationErrors,   \* validator.validationErrors
    isLoading,          \* app.isLoading
    hasErrors,          \* app.hasErrors
    errorMessage,       \* the message shown in the error modal
    registered,         \* window.retryDataLoad is defined
    view,               \* the content of each render target
    pc,                 \* where each pass is suspended
    file,               \* the file a pass is loading (index of FileAt)
    attempt,            \* attempt of loadJSONFile
    lastError,          \* lastError of loadJSONFile
    response,           \* the failed response the pass received last
    delayMs,            \* the delay the pass is waiting
    delays,             \* the delays of the loadJSONFile call the pass is in
    waited,             \* waited of waitForTemplatesReady
    error,              \* the error that ended the pass
    rendered,           \* the render calls the pass has issued
    issued,             \* the files the pass has issued a fetch for
    settled,            \* the files whose loadJSONFile call has ended
    primaryOutcome,     \* how the load of historical_events.json ended
    skipped,            \* the pass found primaryData falsy at line 100 (TrackedSpec)
    fetches,            \* how many fetches the pass has issued (TrackedSpec)
    validated,          \* the calls of validateJSONData made on a validator directly
    renders             \* the calls made on a renderer directly

page == <<templateElements, domTargets, readyState, server>>
shared == <<compiledTemplates, data, validationErrors, isLoading, hasErrors,
            errorMessage, registered, view>>
locals == <<pc, file, attempt, lastError, response, delayMs, delays, waited>>
history == <<error, rendered, issued, settled, primaryOutcome, skipped, fetches>>
direct == <<validated, renders>>
vars == <<page, shared, locals, history, direct>>

\* the content of a target that no call has written yet: the page's own
Blank == [kind |-> "empty"]

\* the state the constructor leaves (lines 8-27), before initialize(); the
\* application is constructed when DOMContentLoaded fires (lines 570-573)
InitOn(servers) ==
    /\ templateElements \in TemplateSets
    /\ domTargets \in TargetSets
    /\ readyState = "interactive"
    /\ server \in servers
    /\ compiledTemplates = [name \in {} |-> EmptySource]
    /\ data = [k \in {} |-> Undefined]
    /\ validationErrors = <<>>
    /\ validated = <<>>
    /\ renders = <<>>
    /\ isLoading = FALSE
    /\ hasErrors = FALSE
    /\ errorMessage = ""
    /\ registered = FALSE
    /\ view = [target \in domTargets |-> Blank]
    /\ pc = [p \in Passes |-> "idle"]
    /\ file = [p \in Passes |-> 0]
    /\ attempt = [p \in Passes |-> 0]
    /\ lastError = [p \in Passes |-> NoError]
    /\ response = [p \in Passes |-> NoResponse]
    /\ delayMs = [p \in Passes |-> 0]
    /\ delays = [p \in Passes |-> <<>>]
    /\ waited = [p \in Passes |-> 0]
    /\ error = [p \in Passes |-> NoError]
    /\ rendered = [p \in Passes |-> <<>>]
    /\ issued = [p \in Passes |-> {}]
    /\ settled = [p \in Passes |-> {}]
    /\ primaryOutcome = [p \in Passes |-> "pending"]
    /\ skipped = [p \in Passes |-> FALSE]
    /\ fetches = [p \in Passes |-> 0]

Init == InitOn(Servers)

\* the locals of pass p after a step
Locals(p, pcv, f, a, le, resp, ms, w) ==
    /\ pc' = [pc EXCEPT ![p] = pcv]
    /\ file' = [file EXCEPT ![p] = f]
    /\ attempt' = [attempt EXCEPT ![p] = a]
    /\ lastError' = [lastError EXCEPT ![p] = le]
    /\ response' = [response EXCEPT ![p] = resp]
    /\ delayMs' = [delayMs EXCEPT ![p] = ms]
    /\ waited' = [waited EXCEPT ![p] = w]

\* loadJSONFile(FileAt(f)) starts: its first fetch is issued
IssueFetch(p, f) ==
    /\ Locals(p, "fetching", f, 1, NoError, NoResponse, 0, 0)
    /\ delays' = [delays EXCEPT ![p] = <<>>]
    /\ issued' = [issued EXCEPT ![p] = @ \cup {f}]

\* the pass that startApp runs
InitialPass == 1

\* the end of a pass: the tail of startApp (lines 76-87) or of retryDataLoad
\* (lines 470-473), with handleAppError when an error e was raised
Finish(p, e, v, calls) ==
    /\ error' = [error EXCEPT ![p] = e]
    /\ rendered' = [rendered EXCEPT ![p] = calls]
    /\ view' = v
    /\ isLoading' = FALSE
    /\ hasErrors' = IF e = NoError THEN hasErrors ELSE TRUE
    /\ errorMessage' = IF e = NoError THEN errorMessage ELSE userMessage(e)
    /\ registered' = (registered \/ (e = NoError /\ p = InitialPass))

\* the pass ends after w milliseconds of waiting for the templates
FinishReset(p, e, v, calls, w) ==
    /\ Finish(p, e, v, calls)
    /\ Locals(p, IF e = NoError THEN "ready" ELSE "failed", 0, 0, NoError, NoResponse,
              0, w)

\* what renderAllContent leaves of the rendering r
Rendered(r) ==
    [view |-> r.view, calls |-> r.calls,
     error |-> IF r.thrown THEN RenderTypeError ELSE NoError]

\* renderAllContent from line 208 on: the error raised (NoError for none),
\* the view and the render calls issued
RenderOutcome(v, compiled, d) ==
    IF ~Truthy(HistoricalData(d))
    THEN [view |-> v, calls |-> <<>>, error |-> NoDataError]
    ELSE Rendered(RenderSections(v, compiled, HistoricalData(d)))

\* the pass ends with the outcome o of renderAllContent
FinishRender(p, o, w) == FinishReset(p, o.error, o.view, o.calls, w)

\* the loop gives up without waiting
KeepsWaitingNever(compiled, w) == FALSE

\* the loop condition of waitForTemplatesReady
KeepsWaiting(compiled, w) == ~isReady(compiled) /\ w < maxWait

\* the test after the loop, line 258
TimedOut(compiled) == ~isReady(compiled)

\* renderAllContent from the loop test of waitForTemplatesReady on, with the
\* data map d and w milliseconds waited
TemplatesStep(p, d, w) ==
    IF KeepsWaiting(compiledTemplates, w)
    THEN /\ Locals(p, "polling", 0, 0, NoError, NoResponse, checkInterval, w)
         /\ UNCHANGED <<error, rendered, view, isLoading, hasErrors, errorMessage,
                        registered>>
    ELSE IF TimedOut(compiledTemplates)
    THEN FinishReset(p, TemplatesError, view, <<>>, w)
    ELSE FinishRender(p, RenderOutcome(view, compiledTemplates, d), w)

\* the loop stops one file early
MoreFilesShort(f) == f < NumFiles - 1

\* the loop of loadOptionalDataFiles has files left after file f
MoreFiles(f) == f < NumFiles

\* loadJSONFile for file f of pass p has ended without an error reaching
\* startApp: outcome says how, and d is the data map now
Continue(p, f, d, outcome) ==
    /\ settled' = [settled EXCEPT ![p] = @ \cup {f}]
    /\ primaryOutcome' = IF f = 1 THEN [primaryOutcome EXCEPT ![p] = outcome]
                         ELSE primaryOutcome
    /\ IF MoreFiles(f)
       THEN /\ IssueFetch(p, f + 1)
            /\ UNCHANGED <<error, rendered, view, isLoading, hasErrors, errorMessage,
                           registered>>
       ELSE /\ TemplatesStep(p, d, 0)
            /\ delays' = [delays EXCEPT ![p] = <<>>]
            /\ UNCHANGED issued

\* startApp (lines 56-71) up to the first fetch
StartApp ==
    /\ pc[InitialPass] = "idle"
    /\ compiledTemplates' = compileAllTemplates(templateElements)
    /\ isLoading' = TRUE
    /\ IssueFetch(InitialPass, 1)
    /\ UNCHANGED <<page, direct, data, validationErrors, hasErrors, errorMessage, registered,
                   view, error, rendered, settled, primaryOutcome, skipped>>

\* window.retryDataLoad(): retryDataLoad (lines 463-468) up to the first fetch
RetryDataLoad(p) ==
    /\ registered
    /\ pc[p] = "idle"
    /\ \A q \in Passes : q < p => pc[q] # "idle"
    /\ hasErrors' = FALSE
    /\ isLoading' = TRUE
    /\ IssueFetch(p, 1)
    /\ UNCHANGED <<page, direct, compiledTemplates, data, validationErrors, errorMessage,
                   registered, view, error, rendered, settled, primaryOutcome, skipped>>

\* window.closeErrorModal(): closeErrorModal (lines 516-522); the page
\* carries the modal
CloseErrorModal ==
    /\ registered
    /\ hasErrors' = FALSE
    /\ UNCHANGED <<page, direct, compiledTemplates, data, validationErrors, isLoading,
                   errorMessage, registered, view, locals, history>>

\* an attempt fails and another is left: the catch block (lines 177-183)
\* up to the delay, which the pass now waits for
AttemptFails(p, resp) ==
    /\ pc[p] = "fetching"
    /\ MayFail(server, file[p], resp)
    /\ HasAttemptsLeft(attempt[p])
    /\ Locals(p, "waiting", file[p], attempt[p],
              Caught(lastError[p], AttemptError(resp)), resp,
              Backoff(attempt[p]), 0)
    /\ UNCHANGED <<page, direct, shared, history, delays>>

\* the delay of line 182 is over: the loop goes to the next attempt and
\* issues its fetch (lines 156-160)
DelayElapses(p) ==
    /\ pc[p] = "waiting"
    /\ Locals(p, "fetching", file[p], attempt[p] + 1, lastError[p], response[p], 0, 0)
    /\ delays' = [delays EXCEPT ![p] = Append(@, delayMs[p])]
    /\ UNCHANGED <<page, direct, shared, error, rendered, issued, settled, primaryOutcome,
                   skipped>>

\* the last attempt for the critical file fails: lines 188-190, and the
\* error reaches startApp or retryDataLoad through loadAllData
CriticalFails(p, resp) ==
    /\ pc[p] = "fetching"
    /\ MayFail(server, file[p], resp)
    /\ ~HasAttemptsLeft(attempt[p])
    /\ IsCritical(FileAt(file[p]))
    /\ file[p] = 1
    /\ LET le == Caught(lastError[p], AttemptError(resp))
       IN  /\ Finish(p, CriticalError(FileAt(file[p]), le), view, <<>>)
           /\ Locals(p, "failed", file[p], attempt[p], le, resp, 0, 0)
    /\ settled' = [settled EXCEPT ![p] = @ \cup {file[p]}]
    /\ primaryOutcome' = [primaryOutcome EXCEPT ![p] = "exhausted"]
    /\ UNCHANGED <<page, direct, compiledTemplates, data, validationErrors, issued,
                   skipped, delays, fetches>>

\* the last attempt for another file fails: lines 191-194, null is returned
\* and nothing is stored
OptionalFails(p, resp) ==
    /\ pc[p] = "fetching"
    /\ MayFail(server, file[p], resp)
    /\ ~HasAttemptsLeft(attempt[p])
    /\ ~(IsCritical(FileAt(file[p])) /\ file[p] = 1)
    /\ Continue(p, file[p], data, "exhausted")
    /\ UNCHANGED <<page, direct, compiledTemplates, data, validationErrors, skipped>>

\* loadAllData with the value loadJSONFile returned for historical_events.json
PrimaryData(d, value) ==
    IF ShouldStore(value)
    THEN UsePrimary(d, DocumentAfter(value, "historical_events"),
                    validateJSONData(validationErrors, value, "historical_events"))
    ELSE d

\* historical_events.json is fetched with a body that parses: lines 166-175,
\* then lines 98-114
PrimaryLoads(p, text) ==
    /\ pc[p] = "fetching"
    /\ file[p] = 1
    /\ validateJSONString(text).success
    /\ MayDeliver(server, 1, validateJSONString(text).data)
    /\ Continue(p, 1, PrimaryData(data, validateJSONString(text).data), "loaded")
    /\ data' = PrimaryData(data, validateJSONString(text).data)
    /\ validationErrors' =
          IF ShouldStore(validateJSONString(text).data)
          THEN ErrorsAfter(validationErrors, validateJSONString(text).data,
                           "historical_events")
          ELSE validationErrors
    /\ UNCHANGED <<page, direct, compiledTemplates>>

\* loadOptionalDataFiles with the value loadJSONFile returned for file f
OptionalData(d, f, value) ==
    IF ShouldStore(value) THEN Store(d, fileName(FileAt(f)), value) ELSE d

\* an optional file is fetched with a body that parses: lines 166-175, then
\* lines 136-141
OptionalLoads(p, text) ==
    /\ pc[p] = "fetching"
    /\ file[p] > 1
    /\ validateJSONString(text).success
    /\ MayDeliver(server, file[p], validateJSONString(text).data)
    /\ data' = OptionalData(data, file[p], validateJSONString(text).data)
    /\ Continue(p, file[p], OptionalData(data, file[p], validateJSONString(text).data),
                "loaded")
    /\ UNCHANGED <<page, direct, compiledTemplates, validationErrors, skipped>>

\* one poll of waitForTemplatesReady: lines 253-256
PollTick(p) ==
    /\ pc[p] = "polling"
    /\ TemplatesStep(p, data, waited[p] + checkInterval)
    /\ UNCHANGED <<page, direct, compiledTemplates, data, validationErrors, issued, settled,
                   primaryOutcome, skipped, delays, fetches>>

Next ==
    \/ StartApp /\ UNCHANGED fetches
    \/ \E p \in Passes \ {InitialPass} : RetryDataLoad(p) /\ UNCHANGED fetches
    \/ CloseErrorModal
    \/ \E p \in Passes, i \in 1..Len(FailingResponses) :
          AttemptFails(p, FailingResponses[i])
    \/ \E p \in Passes : DelayElapses(p) /\ UNCHANGED fetches
    \/ \E p \in Passes, i \in 1..Len(FailingResponses) :
          CriticalFails(p, FailingResponses[i])
    \/ \E p \in Passes, i \in 1..Len(FailingResponses) :
          OptionalFails(p, FailingResponses[i]) /\ UNCHANGED fetches
    \/ \E p \in Passes, i \in 1..Len(PrimaryBodies) :
          PrimaryLoads(p, PrimaryBodies[i]) /\ UNCHANGED <<skipped, fetches>>
    \/ \E p \in Passes, i \in 1..Len(OptionalBodies) :
          OptionalLoads(p, OptionalBodies[i]) /\ UNCHANGED fetches
    \/ \E p \in Passes : PollTick(p)

Spec == Init /\ [][Next]_vars

\* the test of line 100 fails for the value the load returned: the pass goes
\* to loadOptionalDataFiles without validating or storing
Skips(p, text) ==
    skipped' = [skipped EXCEPT ![p] = ~ShouldStore(validateJSONString(text).data)]

\* pass p calls fetch (line 160): the first attempt of the first file, or
\* the attempt after a delay
Fetches(p) == fetches' = [fetches EXCEPT ![p] = @ + 1]

\* the loadJSONFile call of pass p returns: the first attempt of the next
\* file calls fetch, when a file is left
FetchesNext(p) ==
    fetches' = [fetches EXCEPT ![p] = @ + IF MoreFiles(file[p]) THEN 1 ELSE 0]

\* the retries the tracked program is given
MaxTrackedRetries == 1

TrackedPasses == 1..(1 + MaxTrackedRetries)

\* the optional files that may be flaky at once in the tracked program
MaxTrackedFlaky == 2

TrackedServers == ServersOf(MaxTrackedFlaky)

TrackedInit == InitOn(TrackedServers)

\* the same program, with the outcome of the test of line 100 and the
\* number of fetch calls kept for each pass
TrackedNext ==
    \/ StartApp /\ Fetches(InitialPass)
    \/ \E p \in TrackedPasses \ {InitialPass} : RetryDataLoad(p) /\ Fetches(p)
    \/ CloseErrorModal
    \/ \E p \in Passes, i \in 1..Len(FailingResponses) :
          AttemptFails(p, FailingResponses[i])
    \/ \E p \in Passes : DelayElapses(p) /\ Fetches(p)
    \/ \E p \in Passes, i \in 1..Len(FailingResponses) :
          CriticalFails(p, FailingResponses[i])
    \/ \E p \in Passes, i \in 1..Len(FailingResponses) :
          OptionalFails(p, FailingResponses[i]) /\ FetchesNext(p)
    \/ \E p \in Passes, i \in 1..Len(PrimaryBodies) :
          /\ PrimaryLoads(p, PrimaryBodies[i])
          /\ Skips(p, PrimaryBodies[i])
          /\ FetchesNext(p)
    \/ \E p \in Passes, i \in 1..Len(OptionalBodies) :
          OptionalLoads(p, OptionalBodies[i]) /\ FetchesNext(p)
    \/ \E p \in Passes : PollTick(p)

TrackedSpec == TrackedInit /\ [][TrackedNext]_vars

TypeOK ==
    /\ DOMAIN compiledTemplates \subseteq TemplateNames
    /\ \A p \in Passes :
          pc[p] \in {"idle", "fetching", "waiting", "polling", "ready", "failed"}

(***************************************************************************)
(* JSONValidator called directly: one validator instance, a bounded number *)
(* of validateJSONData calls on documents that exercise its branches.      *)
(***************************************************************************)
MaxCalls == 3

\* an element of heroStats with every required field
HeroItem ==
    JObj(<<<<"icon", S(<<"i">>)>>, <<"title", S(<<"t">>)>>, <<"value", S(<<"v">>)>>,
           <<"description", S(<<"d">>)>>>>)

\* an element of heroStats without its description
HeroItemShort ==
    JObj(<<<<"icon", S(<<"i">>)>>, <<"title", JNum(7)>>, <<"value", S(<<"v">>)>>>>)

\* the object item with one more member
WithField(item, field, value) == JObj(Append(item.o, <<field, value>>))

\* a historical_events document with the given heroStats
DocHero(heroStats) ==
    JObj(<<<<"heroStats", heroStats>>, <<"foundationEra", FoundationEra>>,
           <<"mobileEra", MobileEra>>, <<"fintechEra", FintechEra>>>>)

\* a historical_events document with the given heroStats and no foundationEra
DocHeroOnly(heroStats) ==
    JObj(<<<<"heroStats", heroStats>>, <<"mobileEra", MobileEra>>,
           <<"fintechEra", FintechEra>>>>)

\* the names an element may carry beside the declared ones
ExtraFields == {"source", "constructor"}

\* a valid document whose one heroStats element carries the extra field
DocExtra(field) == DocHero(JArr(<<WithField(HeroItem, field, S(<<"x">>))>>))

\* a companies document whose one company has the given marketShare
DocCompany(marketShare) ==
    JObj(<<<<"companies",
             JArr(<<JObj(<<<<"name", S(<<"n">>)>>, <<"marketShare", marketShare>>,
                           <<"subscribers", S(<<"s">>)>>>>)>>)>>>>)

\* a companies document whose one company lacks its name, has a number for
\* the required subscribers and a number for the optional founded
DocCompanyFlawed ==
    JObj(<<<<"companies",
             JArr(<<JObj(<<<<"marketShare", S(<<"4">>)>>, <<"subscribers", JNum(3)>>,
                           <<"founded", JNum(1999)>>>>)>>)>>>>)

\* the values marketShare takes
MarketShares == <<S(<<"4">>), JNum(4), JBool(TRUE), JArr(<<>>), JNull>>

\* errors in several sections: a string element and a short element in
\* heroStats, no foundationEra, mobileEra without events
DocManyErrors ==
    JObj(<<<<"heroStats", JArr(<<S(<<"x">>), HeroItemShort>>)>>,
           <<"mobileEra", JObj(<<<<"socialMediaGrowth", EmptyList>>>>)>>,
           <<"fintechEra", FintechEra>>>>)

\* the calls made: a document and a data type
Call(doc, kind) == [doc |-> doc, kind |-> kind]
ValidatorInputs ==
    <<Call(DocServices, "historical_events"),
      Call(DocNoYearlyStats, "historical_events"),
      Call(DocManyErrors, "historical_events"),
      Call(DocHero(JArr(<<JNum(5), JBool(FALSE), HeroItem>>)), "historical_events"),
      Call(DocHeroOnly(JArr(<<HeroItemShort, JNull, JNum(5)>>)), "historical_events"),
      Call(DocExtra("source"), "historical_events"),
      Call(DocExtra("constructor"), "historical_events"),
      Call(DocCompany(MarketShares[1]), "companies"),
      Call(DocCompany(MarketShares[2]), "companies"),
      Call(DocCompany(MarketShares[3]), "companies"),
      Call(DocCompany(MarketShares[4]), "companies"),
      Call(DocCompany(MarketShares[5]), "companies"),
      Call(JObj(<<<<"companies", JArr(<<S(<<"x">>), JNull>>)>>>>), "companies"),
      Call(DocCompanyFlawed, "companies"),
      Call(JNull, "historical_events"),
      Call(JNum(1), "historical_events"),
      Call(DocManyErrors, "statistics"),
      Call(DocValid, "timeline"),
      Call(Undefined, "timeline"),
      Call(EmptyList, "events")>>

\* validator.validateJSONData(doc, kind) on the one instance
Validate(doc, kind) ==
    /\ Len(validated) < MaxCalls
    /\ validated' = Append(validated,
                           [doc |-> doc, kind |-> kind,
                            result |-> validateJSONData(validationErrors, doc, kind),
                            after |-> DocumentAfter(doc, kind)])
    /\ validationErrors' = ErrorsAfter(validationErrors, doc, kind)
    /\ UNCHANGED <<page, compiledTemplates, data, isLoading, hasErrors, errorMessage,
                   registered, view, locals, history, renders>>

ValidatorNext ==
    \E i \in 1..Len(ValidatorInputs) :
        Validate(ValidatorInputs[i].doc, ValidatorInputs[i].kind)

\* a page with every template; the validator does not read it
ValidatorInit == Init /\ templateElements = AllTemplates /\ server = OptionalDown

ValidatorSpec == ValidatorInit /\ [][ValidatorNext]_vars

(***************************************************************************)
(* TemplateRenderer called directly: one renderer on a page whose          *)
(* templates and targets vary, a bounded number of calls of renderTemplate,*)
(* of the era functions, of renderSidebarContent and of the render calls   *)
(* of renderAllContent.                                                    *)
(***************************************************************************)
MaxRenders == 2

\* titles of events
TitlePtcl == <<"P", "T", "C", "L", " ", "P", "r", "i", "v", "a", "t", "i", "z", "a",
               "t", "i", "o", "n">>
TitlePtclLater == <<"S", "e", "c", "o", "n", "d", " ", "P", "T", "C", "L", " ", "P",
                    "R", "I", "V", "A", "T", "I", "Z", "A", "T", "I", "O", "N">>
TitleOther == <<"B", "r", "o", "a", "d", "b", "a", "n", "d">>
Title3G4G == <<"3", "G", "/", "4", "G", " ", "L", "a", "u", "n", "c", "h">>
TitleSpectrum == <<"S", "p", "e", "c", "t", "r", "u", "m", " ", "A", "u", "c", "t",
                   "i", "o", "n">>
TitlePolicy == <<"D", "i", "g", "i", "t", "a", "l", " ", "P", "a", "k", "i", "s", "t",
                 "a", "n", " ", "P", "o", "l", "i", "c", "y">>
TitlePolicyLater == <<"N", "e", "w", " ", "D", "I", "G", "I", "T", "A", "L", " ", "P",
                      "A", "K", "I", "S", "T", "A", "N", " ", "P", "O", "L", "I", "C",
                      "Y">>
TitlePolicyKelvin == <<"D", "i", "g", "i", "t", "a", "l", " ", "P", "a", "U+212A", "i",
                       "s", "t", "a", "n", " ", "P", "o", "l", "i", "c", "y">>
TitleRaast == <<"R", "a", "a", "s", "t">>
TitleCovid == <<"C", "O", "V", "I", "D", "-", "1", "9">>

\* an event with a title, and one without
Event(title) == JObj(<<<<"year", JNum(2006)>>, <<"title", S(title)>>>>)
Untitled == JObj(<<<<"year", JNum(2006)>>>>)

\* foundation eras: the keyword in the second and third title, in no title,
\* behind an event without title
FoundationPtcl ==
    JObj(<<<<"events", JArr(<<Event(TitleOther), Event(TitlePtcl), Event(TitlePtclLater)>>)>>,
           <<"yearlyStats", EmptyList>>>>)
FoundationOther ==
    JObj(<<<<"events", JArr(<<Event(TitleOther)>>)>>, <<"yearlyStats", EmptyList>>>>)
FoundationUntitled ==
    JObj(<<<<"events", JArr(<<Untitled, Event(TitlePtcl)>>)>>, <<"yearlyStats", EmptyList>>>>)

\* a foundation era whose events are an object with a length
FoundationLength ==
    JObj(<<<<"events", JObj(<<<<"length", S(<<"2">>)>>>>)>>, <<"yearlyStats", EmptyList>>>>)

\* an object that cannot be converted to a primitive, and a foundation era
\* whose events have it for their length
Stubborn == JObj(<<<<"toString", JNum(1)>>>>)
FoundationStubborn ==
    JObj(<<<<"events", JObj(<<<<"length", Stubborn>>>>)>>, <<"yearlyStats", EmptyList>>>>)

\* mobile eras: every keyword, two titles with 'digital pakistan policy'; no
\* socialMediaGrowth
Platform ==
    JObj(<<<<"platform", S(<<"F", "a", "c", "e", "b", "o", "o", "k">>)>>,
           <<"users", S(<<"4", "0", "M">>)>>>>)
MobileKeywords ==
    JObj(<<<<"events", JArr(<<Event(TitlePolicy), Event(TitleSpectrum), Event(Title3G4G),
                             Event(TitlePolicyLater), Event(TitleCovid)>>)>>,
           <<"socialMediaGrowth", JArr(<<Platform>>)>>>>)
MobileNoGrowth == JObj(<<<<"events", JArr(<<Event(Title3G4G)>>)>>>>)

\* a mobile era whose policy title spells its K with the Kelvin sign, and
\* whose platforms have a number for ranking, a list and the name of a
\* member of Object.prototype for platform
MobileKelvin ==
    JObj(<<<<"events", JArr(<<Event(TitleOther), Event(TitlePolicyKelvin)>>)>>,
           <<"socialMediaGrowth",
             JArr(<<JObj(<<<<"platform", JArr(<<S(<<"F", "a", "c", "e", "b", "o", "o", "k">>)>>)>>,
                           <<"ranking", JNum(3)>>>>),
                    JObj(<<<<"platform", S(Spelled("constructor"))>>,
                           <<"ranking", JNum(-1)>>>>)>>)>>>>)

\* a mobile era whose second platform cannot be the key of an icon
MobileStubborn ==
    JObj(<<<<"events", JArr(<<Event(Title3G4G)>>)>>,
           <<"socialMediaGrowth",
             JArr(<<Platform, JObj(<<<<"platform", Stubborn>>>>)>>)>>>>)

\* a fintech era with the keyword
FintechRaast ==
    JObj(<<<<"events", JArr(<<Event(TitleOther), Event(TitleRaast)>>)>>,
           <<"mobileBanking", JArr(<<JObj(<<<<"service", S(<<"J">>)>>>>)>>)>>,
           <<"investmentBoom", JArr(<<JObj(<<<<"company", S(<<"B">>)>>>>)>>)>>>>)

\* historical_events documents with the sidebar sections
FiveGFuture == JObj(<<<<"launchTimeline", S(<<"2", "0", "2", "5">>)>>>>)
DigitalDivides ==
    JObj(<<<<"genderGap", JObj(<<<<"percentage", S(<<"3", "8", "%">>)>>>>)>>,
           <<"geographicGap", JObj(<<<<"urbanAccess", S(<<"7", "0", "%">>)>>>>)>>>>)
DocFull ==
    JObj(<<<<"heroStats", JArr(<<HeroItem>>)>>, <<"foundationEra", FoundationPtcl>>,
           <<"mobileEra", MobileKeywords>>, <<"fintechEra", FintechRaast>>,
           <<"fiveGFuture", FiveGFuture>>, <<"digitalDivides", DigitalDivides>>>>)
DocSidebarOnly ==
    JObj(<<<<"mobileEra", MobileEra>>, <<"fiveGFuture", FiveGFuture>>>>)
\* a document whose digital divide has a value that cannot be converted
DocStubborn ==
    JObj(<<<<"mobileEra", MobileKeywords>>,
           <<"digitalDivides",
             JObj(<<<<"genderGap", JObj(<<<<"percentage", S(<<"3", "8", "%">>)>>,
                                          <<"menAccess", JArr(<<Stubborn>>)>>>>)>>,
                    <<"geographicGap", JObj(<<>>)>>>>)>>>>)
DocNoGrowth ==
    JObj(<<<<"heroStats", JArr(<<HeroItem>>)>>, <<"foundationEra", FoundationOther>>,
           <<"mobileEra", MobileNoGrowth>>, <<"fintechEra", FintechRaast>>>>)

\* the data of a direct render call
HeroData == JObj(<<<<"heroStats", JArr(<<HeroItem>>)>>>>)

\* the pages: every template valid, no statistics template, a malformed
\* historicalEvents template, an empty companies template, no infrastructure
\* template; every target, or all but two
MalformedEvents == [AllTemplates EXCEPT !["historicalEvents"] = MalformedSource]
EmptyCompanies == [AllTemplates EXCEPT !["companies"] = EmptySource]
BlankSocialMedia == [AllTemplates EXCEPT !["socialMedia"] = BlankSource]
AllButInfrastructure == [name \in TemplateNames \ {"infrastructure"} |-> ValidSource]
RendererTemplates ==
    {AllTemplates, AllButStatistics, MalformedEvents, EmptyCompanies, BlankSocialMedia,
     AllButInfrastructure}
RendererTargets == {contentSelectors, contentSelectors \ {"#foundationStats", "#covidImpact"}}

\* the template sets of the pages whose renderer is constructed while the
\* document is loading
LoadingTemplates == {AllButInfrastructure, BlankSocialMedia}

\* the pages: either set of targets with every template valid and with the
\* malformed one, every target with any set of templates, the renderer
\* constructed when the document has loaded; every target with a set of
\* LoadingTemplates, the renderer constructed while the document is loading
RendererPages ==
    {<<pg[1], pg[2], "interactive">> :
        pg \in ({AllTemplates, MalformedEvents} \X RendererTargets)
                   \cup (RendererTemplates \X {contentSelectors})}
        \cup {<<pg[1], pg[2], "loading">> : pg \in LoadingTemplates \X {contentSelectors}}

\* the arguments of the direct calls of renderTemplate
Direct(templateName, renderData, target) ==
    [template |-> templateName, data |-> renderData, target |-> target]
TemplateInputs ==
    <<Direct("heroStats", HeroData, "#heroStats"),
      Direct("heroStats", HeroData, "#timeline"),
      Direct("heroStats", HeroData, ""),
      Direct("heroStats", JNull, "#heroStats"),
      Direct("timeline", HeroData, "#heroStats"),
      Direct("historicalEvents", HeroData, "#heroStats"),
      Direct("historicalEvents", HeroData, "#covidImpact"),
      Direct("companies", HeroData, "#"),
      Direct("__proto__", HeroData, "#heroStats"),
      Direct("hasOwnProperty", Stubborn, "#heroStats"),
      Direct("__lookupGetter__", S(Spelled("__proto__")), "#heroStats")>>

FoundationInputs ==
    <<FoundationPtcl, FoundationOther, FoundationEra, FoundationUntitled, FoundationLength,
      FoundationStubborn, JNull>>
MobileInputs == <<MobileKeywords, MobileEra, MobileKelvin, MobileStubborn>>
FintechInputs == <<FintechRaast, FintechEra>>
SidebarInputs == <<DocFull, DocSidebarOnly, DocValid, DocStubborn>>
PassInputs == <<DocFull, DocValid, DocNoGrowth>>

\* a call on the renderer ends: it is logged with the view it found, the
\* rendering it made and what it gave its caller, and the view is what the
\* rendering left
RendererCall(op, templateName, renderData, target, r1, result) ==
    /\ renders' = Append(renders, [op |-> op, template |-> templateName,
                                   data |-> renderData, target |-> target,
                                   compiled |-> compiledTemplates,
                                   before |-> view, after |-> r1, result |-> result])
    /\ view' = r1.view
    /\ UNCHANGED <<page, compiledTemplates, data, validationErrors, isLoading, hasErrors,
                   errorMessage, registered, locals, history, validated>>

\* renderer.renderTemplate(templateName, data, target)
RenderTemplate(templateName, renderData, target) ==
    /\ Len(renders) < MaxRenders
    /\ RendererCall("renderTemplate", templateName, renderData, target,
                    renderTemplate(Rendering(view), compiledTemplates, templateName,
                                   renderData, target),
                    TemplateReturns(renderTemplate(Rendering(view), compiledTemplates,
                                                   templateName, renderData, target)))

\* renderer.renderFoundationEra(foundationData)
RenderFoundationEra(foundationData) ==
    /\ Len(renders) < MaxRenders
    /\ RendererCall("renderFoundationEra", "", foundationData, "",
                    renderFoundationEra(Rendering(view), compiledTemplates, foundationData),
                    EraReturns(Rendering(view),
                               renderFoundationEra(Rendering(view), compiledTemplates,
                                                   foundationData)))

\* renderer.renderMobileEra(mobileData)
RenderMobileEra(mobileData) ==
    /\ Len(renders) < MaxRenders
    /\ RendererCall("renderMobileEra", "", mobileData, "",
                    renderMobileEra(Rendering(view), compiledTemplates, mobileData),
                    EraReturns(Rendering(view),
                               renderMobileEra(Rendering(view), compiledTemplates,
                                               mobileData)))

\* renderer.renderFintechEra(fintechData)
RenderFintechEra(fintechData) ==
    /\ Len(renders) < MaxRenders
    /\ RendererCall("renderFintechEra", "", fintechData, "",
                    renderFintechEra(Rendering(view), compiledTemplates, fintechData),
                    EraReturns(Rendering(view),
                               renderFintechEra(Rendering(view), compiledTemplates,
                                                fintechData)))

\* renderer.renderSidebarContent(allData)
RenderSidebarContent(allData) ==
    /\ Len(renders) < MaxRenders
    /\ RendererCall("renderSidebarContent", "", allData, "",
                    renderSidebarContent(Rendering(view), compiledTemplates, allData),
                    NothingReturned(renderSidebarContent(Rendering(view), compiledTemplates,
                                                         allData)))

\* the render calls of renderAllContent (lines 214-235) on historicalData,
\* which waitForTemplatesReady (line 203) lets it reach once isReady() is true
RenderAllContent(historicalData) ==
    /\ Len(renders) < MaxRenders
    /\ isReady(compiledTemplates)
    /\ RendererCall("renderAllContent", "", historicalData, "",
                    RenderSections(view, compiledTemplates, historicalData),
                    NothingReturned(RenderSections(view, compiledTemplates, historicalData)))

\* renderer.clearAllContent()
ClearAllContent ==
    /\ Len(renders) < MaxRenders
    /\ RendererCall("clearAllContent", "", Undefined, "",
                    [view |-> clearAllContent(view), calls |-> <<>>, thrown |-> FALSE],
                    "undefined")

\* DOMContentLoaded fires on a page whose renderer was constructed while the
\* document was loading: the listener of lines 19-21 compiles the templates
DOMContentLoaded ==
    /\ readyState = "loading"
    /\ readyState' = "interactive"
    /\ compiledTemplates' = compileAllTemplates(templateElements)
    /\ UNCHANGED <<templateElements, domTargets, server, data, validationErrors, isLoading,
                   hasErrors, errorMessage, registered, view, locals, history, direct>>

RendererNext ==
    \/ DOMContentLoaded
    \/ \E i \in 1..Len(TemplateInputs) :
          RenderTemplate(TemplateInputs[i].template, TemplateInputs[i].data,
                         TemplateInputs[i].target)
    \/ \E i \in 1..Len(FoundationInputs) : RenderFoundationEra(FoundationInputs[i])
    \/ \E i \in 1..Len(MobileInputs) : RenderMobileEra(MobileInputs[i])
    \/ \E i \in 1..Len(FintechInputs) : RenderFintechEra(FintechInputs[i])
    \/ \E i \in 1..Len(SidebarInputs) : RenderSidebarContent(SidebarInputs[i])
    \/ \E i \in 1..Len(PassInputs) : RenderAllContent(PassInputs[i])
    \/ ClearAllContent

\* what the constructor leaves in compiledTemplates (lines 8-10, 16-25): on
\* a page that is loading the empty map, the compilation being left to
\* DOMContentLoaded; the compiled templates otherwise
Constructed(elements, state) ==
    IF state = "loading" THEN [name \in {} |-> EmptySource]
    ELSE compileAllTemplates(elements)

\* the renderer is constructed on a page
RendererInit ==
    /\ \E pg \in RendererPages :
          /\ templateElements = pg[1]
          /\ domTargets = pg[2]
          /\ readyState = pg[3]
          /\ compiledTemplates = Constructed(pg[1], pg[3])
    /\ server = OptionalDown
    /\ data = [k \in {} |-> Undefined]
    /\ validationErrors = <<>>
    /\ validated = <<>>
    /\ renders = <<>>
    /\ isLoading = FALSE
    /\ hasErrors = FALSE
    /\ errorMessage = ""
    /\ registered = FALSE
    /\ view = [target \in domTargets |-> Blank]
    /\ pc = [p \in Passes |-> "idle"]
    /\ file = [p \in Passes |-> 0]
    /\ attempt = [p \in Passes |-> 0]
    /\ lastError = [p \in Passes |-> NoError]
    /\ response = [p \in Passes |-> NoResponse]
    /\ delayMs = [p \in Passes |-> 0]
    /\ delays = [p \in Passes |-> <<>>]
    /\ waited = [p \in Passes |-> 0]
    /\ error = [p \in Passes |-> NoError]
    /\ rendered = [p \in Passes |-> <<>>]
    /\ issued = [p \in Passes |-> {}]
    /\ settled = [p \in Passes |-> {}]
    /\ primaryOutcome = [p \in Passes |-> "pending"]
    /\ skipped = [p \in Passes |-> FALSE]
    /\ fetches = [p \in Passes |-> 0]

RendererSpec == RendererInit /\ [][RendererNext]_vars

(***************************************************************************)
(* Properties                                                              *)
(***************************************************************************)
Active(p) == pc[p] \in {"fetching", "waiting", "polling"}
FailedOnLoad(p) ==
    pc[p] = "failed" /\ MessageIncludes(error[p], "Failed to load critical data")
FailedOnTemplates(p) ==
    pc[p] = "failed" /\ MessageIncludes(error[p], "Templates failed to compile")

\* C1: when every attempt for historical_events.json fails, loadJSONFile has
\* made exactly retryAttempts attempts (never more while fetching), and the
\* fatal error names the file and carries the error of the final attempt.
C1_RetryBudget ==
    \A p \in Passes :
        /\ pc[p] = "fetching" => attempt[p] \in 1..retryAttempts
        /\ FailedOnLoad(p) =>
              /\ file[p] = 1
              /\ attempt[p] = retryAttempts
              /\ error[p] = CriticalError(primaryFile, AttemptError(response[p]))
              /\ MessageIncludes(error[p], PathOf(primaryFile))
        /\ primaryOutcome[p] = "exhausted" => FailedOnLoad(p)

\* the third attempt failed on a malformed body and the pass has failed
C1_Witness ==
    \E p \in Passes :
        /\ FailedOnLoad(p)
        /\ attempt[p] = retryAttempts
        /\ response[p] = Body(Malformed)

\* C2: when every attempt for an optional file fails, the pass goes on
\* without a load error and the data map has no entry under the file's key.
C2_OptionalDegradation ==
    [][\A p \in Passes, i \in 1..Len(FailingResponses) :
          OptionalFails(p, FailingResponses[i]) =>
              /\ ~MessageIncludes(error'[p], "Failed to load critical data")
              /\ fileName(FileAt(file[p])) \notin DOMAIN data']_vars

\* C3: with the templates ready and a primary document stored, a pass never
\* fails for another reason than the exhaustion of the primary load; a
\* document that fails validation does not make the pass fail.
C3_ValidationNeverAborts ==
    \A p \in Passes :
        (/\ pc[p] = "failed"
         /\ isReady(compiledTemplates)
         /\ primaryOutcome[p] = "loaded"
         /\ "historical_events" \in DOMAIN data) => FailedOnLoad(p)

\* C4: whenever historical_events.json is fetched and parsed to an object,
\* the object is stored as data.historical_events whatever the validation
\* says; the document without foundationEra.yearlyStats is stored, and its
\* validation fails with an error naming foundationEra.yearlyStats.
C4_AdvisoryValidation ==
    [][\A p \in Passes, i \in 1..Len(PrimaryDocs) :
          (PrimaryLoads(p, JsonText(PrimaryDocs[i])) /\ Truthy(PrimaryDocs[i])) =>
              /\ "historical_events" \in DOMAIN data'
              /\ data'["historical_events"] = PrimaryDocs[i]
              /\ validationErrors' =
                    validateJSONData(validationErrors, PrimaryDocs[i],
                                     "historical_events").errors
              /\ PrimaryDocs[i] = DocNoYearlyStats =>
                    /\ ~validateJSONData(validationErrors, PrimaryDocs[i],
                                         "historical_events").success
                    /\ \E k \in 1..Len(validationErrors') :
                          validationErrors'[k] =
                             "foundationEra.yearlyStats must be an array"]_vars

\* the document without foundationEra.yearlyStats is in the data map and
\* the validator holds the error that names the missing path
C4_Witness ==
    /\ "historical_events" \in DOMAIN data
    /\ data["historical_events"] = DocNoYearlyStats
    /\ validationErrors = <<"foundationEra.yearlyStats must be an array">>

\* C5: a pass issues a fetch for an optional file only after the load of
\* historical_events.json has ended with a value; when that load exhausts
\* its attempts the pass issues no optional fetch at all.
C5_PrimaryBeforeOptional ==
    \A p \in Passes :
        /\ issued[p] \ {1} # {} => (1 \in settled[p] /\ primaryOutcome[p] = "loaded")
        /\ primaryOutcome[p] = "exhausted" => issued[p] = {1}
        /\ primaryOutcome[p] = "pending" => issued[p] \subseteq {1}

\* a pass is fetching its first optional file
C5_Witness ==
    \E p \in Passes : pc[p] = "fetching" /\ file[p] = 2 /\ primaryOutcome[p] = "loaded"

\* C6: no render call is issued while isReady() is false; a pass polls in
\* steps of checkInterval up to maxWait, and when isReady() is still false
\* then it fails with the template error, which is not the load error, and
\* has issued no render call.
C6_ReadinessGate ==
    \A p \in Passes :
        /\ rendered[p] # <<>> => isReady(compiledTemplates)
        /\ pc[p] = "polling" =>
              /\ ~isReady(compiledTemplates)
              /\ waited[p] < maxWait
              /\ waited[p] % checkInterval = 0
              /\ rendered[p] = <<>>
        /\ (pc[p] \in {"ready", "failed"} /\ ~isReady(compiledTemplates)) =>
              \/ FailedOnLoad(p)
              \/ /\ FailedOnTemplates(p)
                 /\ waited[p] = maxWait
                 /\ rendered[p] = <<>>
                 /\ userMessage(error[p]) = "templates"
                 /\ ~MessageIncludes(error[p], "Failed to load critical data")

\* a pass has failed on the template timeout after polling for maxWait
C6_Witness ==
    \E p \in Passes : FailedOnTemplates(p) /\ waited[p] = maxWait

\* C7: a pass issues its first render call only after the load of every one
\* of its six files has ended, loaded or out of attempts, and no fetch or
\* retry delay of the pass is pending once it has rendered.
C7_RenderAfterAllLoads ==
    \A p \in Passes :
        rendered[p] # <<>> =>
            /\ settled[p] = 1..NumFiles
            /\ issued[p] = 1..NumFiles
            /\ ~Active(p)
            /\ pc[p] \notin {"fetching", "waiting"}

\* a pass has rendered after infrastructure.json, the last file, ran out of
\* attempts: the server rejects every fetch of it
C7_Witness ==
    \E p \in Passes :
        /\ rendered[p] # <<>>
        /\ pc[p] = "ready"
        /\ server[NumFiles] = "down"
        /\ fileName(FileAt(NumFiles)) = "infrastructure"
        /\ "infrastructure" \notin DOMAIN data

\* C8: in a retry pass, an optional file that fails to load has no entry in
\* the data map: what an earlier pass stored is not retained.
C8_RetryFromScratch ==
    [][\A p \in Passes \ {InitialPass}, i \in 1..Len(FailingResponses) :
          OptionalFails(p, FailingResponses[i]) =>
              fileName(FileAt(file[p])) \notin DOMAIN data']_vars

\* C9: whenever a pass has failed, window.retryDataLoad is registered.
C9_RetryAvailableAfterFailure ==
    \A p \in Passes : pc[p] = "failed" => registered

\* C10: at most one pass is active at any time.
C10_SinglePass == Cardinality({p \in Passes : Active(p)}) <= 1

\* a render call of pass p has put content into its target
ContentRendered(p) == \E i \in 1..Len(rendered[p]) : rendered[p][i].ok

\* C11: the loading indicator is on while a pass is active, isLoading and
\* hasErrors are never both true, and a pass that ends with the error
\* surface has rendered no content.
C11_AtomicPass ==
    /\ ~(isLoading /\ hasErrors)
    /\ \A p \in Passes :
          /\ Active(p) => isLoading
          /\ pc[p] = "failed" => (hasErrors /\ ~ContentRendered(p))

\* C12: a pass that has issued a render call never ends in failed.
C12_NoFailureAfterRender ==
    \A p \in Passes : rendered[p] # <<>> => pc[p] # "failed"

\* the category of the failure that ends pass p, from what happened in it
FailureCategory(outcome, compiled) ==
    IF outcome = "exhausted" THEN "load"
    ELSE IF ~isReady(compiled) THEN "templates"
    ELSE "other"

\* C13: when a pass fails, the one message shown is the one of the category
\* of its failure: the load message when historical_events.json exhausted its
\* attempts, the template message on the readiness timeout, the generic
\* message otherwise; an error of both categories gets the load message.
C13_MessageByCategory ==
    [][/\ userMessage(CriticalError(primaryFile, TemplatesError)) = "load"
       /\ \A p \in Passes :
             (pc[p] # "failed" /\ pc'[p] = "failed") =>
                 /\ hasErrors'
                 /\ errorMessage' = userMessage(error'[p])
                 /\ errorMessage' =
                       FailureCategory(primaryOutcome'[p], compiledTemplates')]_vars

\* a pass has failed at render time for want of primary data, and the
\* generic message is shown
C13_Witness ==
    \E p \in Passes :
        /\ pc[p] = "failed"
        /\ error[p] = NoDataError
        /\ hasErrors
        /\ errorMessage = "other"

\* the calls logged so far
Logged == 1..Len(validated)

\* the sequence errs holds the message
Has(errs, message) == \E k \in 1..Len(errs) : errs[k] = message

\* the call returned a ValidationResult
Returned(c) == DOMAIN c.result = {"success", "errors", "data"}

\* the call reaches the switch and walks the document
Walks(c) == Truthy(c.doc) /\ TypeOf(c.doc) = "object" /\ c.kind \in DataTypes

\* an exception is raised while the document is walked
Faults(c) == Walks(c) /\ Dispatch(<<>>, c.doc, c.kind).thrown

\* heroStats[j] or companies[j], as the error messages write it
ItemPath(itemType, j) == itemType \o "[" \o ToString(j - 1) \o "]"

\* C14: every call of validateJSONData returns a result, and a fault raised
\* while the document is walked becomes the result with success false, the
\* single error 'Validation error: <message>' and data null.
C14_NeverThrows ==
    \A i \in Logged :
        /\ Returned(validated[i])
        /\ Faults(validated[i]) =>
              /\ ~validated[i].result.success
              /\ Len(validated[i].result.errors) = 1
              /\ validated[i].result.errors[1] =
                    "Validation error: "
                    \o Dispatch(<<>>, validated[i].doc, validated[i].kind).msg
              /\ validated[i].result.data = "null"

\* a document with a null element in heroStats has been validated and the
\* TypeError came back wrapped
C14_Witness ==
    \E i \in Logged :
        /\ Faults(validated[i])
        /\ validated[i].result.errors =
              <<"Validation error: Cannot use 'in' operator to search for 'icon' in null">>

\* C15: the result of a historical_events call holds the error of every
\* section that is not an object, of heroStats when it is not an array, and
\* of every required field an element of heroStats lacks, whatever is wrong
\* elsewhere in the document.
C15_AllErrorsAccumulated ==
    \A i \in Logged :
        (Walks(validated[i]) /\ validated[i].kind = "historical_events") =>
            /\ \A era \in {"foundationEra", "mobileEra", "fintechEra"} :
                  (\/ ~Truthy(Get(validated[i].doc, era))
                   \/ TypeOf(Get(validated[i].doc, era)) # "object") =>
                      Has(validated[i].result.errors, era \o " must be an object")
            /\ ~IsArray(Get(validated[i].doc, "heroStats")) =>
                  Has(validated[i].result.errors, "heroStats must be an array")
            /\ IsArray(Get(validated[i].doc, "heroStats")) =>
                  \A j \in 1..Len(Get(validated[i].doc, "heroStats").a) :
                      \A f \in 1..Len(getRequiredFields.heroStats.required) :
                          (/\ Get(validated[i].doc, "heroStats").a[j].t = "object"
                           /\ ~HasKey(Get(validated[i].doc, "heroStats").a[j],
                                      getRequiredFields.heroStats.required[f])) =>
                              Has(validated[i].result.errors,
                                  ItemPath("heroStats", j) \o " missing required field: "
                                  \o getRequiredFields.heroStats.required[f])

\* the types of the JSON values that are not aggregates
NonAggregates == {"number", "string", "boolean", "null"}

\* the array the call validates element by element, and its item type
ItemsOf(c) ==
    IF c.kind = "companies" THEN Get(c.doc, "companies") ELSE Get(c.doc, "heroStats")
ItemTypeOf(c) == IF c.kind = "companies" THEN "companies" ELSE "heroStats"

\* C16: every element of a validated array that is a number, a string, a
\* boolean or null yields the error '<kind>[i] must be an object'.
C16_NonAggregateElements ==
    \A i \in Logged :
        (/\ Walks(validated[i])
         /\ validated[i].kind \in {"historical_events", "companies"}
         /\ IsArray(ItemsOf(validated[i]))) =>
            \A j \in 1..Len(ItemsOf(validated[i]).a) :
                ItemsOf(validated[i]).a[j].t \in NonAggregates =>
                    Has(validated[i].result.errors,
                        ItemPath(ItemTypeOf(validated[i]), j) \o " must be an object")

\* C17: every call returns what a fresh validator returns for the same
\* document and kind, and two calls on the same document and kind return
\* the same result, whatever was validated in between.
C17_Idempotent ==
    /\ \A i \in Logged :
          validated[i].result =
              validateJSONData(<<>>, validated[i].doc, validated[i].kind)
    /\ \A i \in Logged, j \in Logged :
          (validated[i].doc = validated[j].doc /\ validated[i].kind = validated[j].kind)
              => validated[i].result = validated[j].result

\* a document with several errors was validated, then one that raises a
\* fault, then the first again, with the first result
C17_Witness ==
    /\ Len(validated) = 3
    /\ validated[1].doc = DocManyErrors
    /\ Faults(validated[2])
    /\ validated[3].doc = DocManyErrors
    /\ Len(validated[1].result.errors) > 1
    /\ validated[3].result = validated[1].result

\* C18: a valid element with one more field the registry does not declare
\* still validates: success with no errors, whatever the name of the field.
C18_ExtraFieldsIgnored ==
    \A i \in Logged :
        (/\ validated[i].kind = "historical_events"
         /\ \E field \in ExtraFields :
               /\ ~Declares(getRequiredFields.heroStats, field)
               /\ validated[i].doc = DocExtra(field)) =>
            /\ validated[i].result.success
            /\ validated[i].result.errors = <<>>

\* C19: a company's marketShare passes exactly when its type, with an array
\* classified as 'array', is string or number; otherwise the error lists the
\* accepted types and the actual type.
C19_TypeLists ==
    \A i \in Logged, k \in 1..Len(MarketShares) :
        (validated[i].kind = "companies" /\ validated[i].doc = DocCompany(MarketShares[k]))
        => /\ validated[i].result.success <=>
                 (IF IsArray(MarketShares[k]) THEN "array" ELSE TypeOf(MarketShares[k]))
                     \in {"string", "number"}
           /\ ~validated[i].result.success =>
                 Has(validated[i].result.errors,
                     "companies[0].marketShare must be one of: string, number, got: "
                     \o (IF IsArray(MarketShares[k]) THEN "array"
                         ELSE TypeOf(MarketShares[k])))

\* marketShare was validated as a string, as a number and as a boolean:
\* the first two passed, the third failed with the list in its message
C19_Witness ==
    /\ Len(validated) = 3
    /\ validated[1].doc = DocCompany(S(<<"4">>)) /\ validated[1].kind = "companies"
    /\ validated[1].result = getValidationResult(<<>>)
    /\ validated[2].doc = DocCompany(JNum(4)) /\ validated[2].kind = "companies"
    /\ validated[2].result = getValidationResult(<<>>)
    /\ validated[3].doc = DocCompany(JBool(TRUE))
    /\ Has(validated[3].result.errors,
           "companies[0].marketShare must be one of: string, number, got: boolean")

\* C20: in every result, success is true exactly when errors is empty, and
\* data is 'Valid' exactly when success is true and null otherwise.
C20_ResultShape ==
    \A i \in Logged :
        /\ validated[i].result.success <=> validated[i].result.errors = <<>>
        /\ validated[i].result.data = "Valid" <=> validated[i].result.success
        /\ validated[i].result.data \in {"Valid", "null"}

\* a valid document, a null document and a document with structural errors
\* have been validated
C20_Witness ==
    /\ Len(validated) = 3
    /\ validated[1].result = [success |-> TRUE, errors |-> <<>>, data |-> "Valid"]
    /\ validated[2].doc = JNull
    /\ validated[2].result.errors = <<"JSON data is null or undefined">>
    /\ validated[3].doc = DocNoYearlyStats
    /\ validated[3].result.data = "null"

\* the document is null, undefined, or of another type than object
ShortCircuits(c) == ~Truthy(c.doc) \/ TypeOf(c.doc) # "object"

\* C21: validateJSONData on a document that is absent or not of object type
\* returns, for a known and for an unknown kind alike, success false with
\* exactly one top-level error ('JSON data is null or undefined' for a falsy
\* document, 'JSON data must be an object' for another non-object); no
\* kind-specific check has run: the validator's error list is left empty.
C21_DocumentShortCircuit ==
    \A i \in Logged :
        ShortCircuits(validated[i]) =>
            /\ validated[i].result.success = FALSE
            /\ Len(validated[i].result.errors) = 1
            /\ validated[i].result.errors[1] =
                  IF Truthy(validated[i].doc) THEN "JSON data must be an object"
                  ELSE "JSON data is null or undefined"
            /\ validated[i].result.data = "null"
            /\ i = Len(validated) => validationErrors = <<>>

\* null and a number have been validated with a known kind, undefined with
\* an unknown kind
C21_Witness ==
    /\ Len(validated) = 3
    /\ validated[1].doc = JNull /\ validated[1].kind = "historical_events"
    /\ validated[2].doc = JNum(1) /\ validated[2].kind = "historical_events"
    /\ validated[2].result.errors = <<"JSON data must be an object">>
    /\ validated[3].doc = Undefined /\ validated[3].kind = "timeline"
    /\ validated[3].result.errors = <<"JSON data is null or undefined">>

\* C22: validateJSONData on an object document with a kind outside the six
\* recognised kinds returns success false with the single error
\* 'Unknown data type: <kind>'.
C22_UnknownKind ==
    \A i \in Logged :
        (~ShortCircuits(validated[i]) /\ validated[i].kind \notin DataTypes) =>
            /\ validated[i].result.success = FALSE
            /\ validated[i].result.errors = <<"Unknown data type: " \o validated[i].kind>>
            /\ validated[i].result.data = "null"

\* a valid document has been validated as 'timeline' and an array as 'events'
C22_Witness ==
    /\ Len(validated) = 2
    /\ validated[1].doc = DocValid /\ validated[1].kind = "timeline"
    /\ validated[1].result.errors = <<"Unknown data type: timeline">>
    /\ validated[2].doc = EmptyList /\ validated[2].kind = "events"
    /\ validated[2].result.errors = <<"Unknown data type: events">>

\* the renderer calls logged so far, and the render calls of one of them
RenderLog == 1..Len(renders)
CallsOf(i) == 1..Len(renders[i].after.calls)
IsComposite(c) == c.op \notin {"renderTemplate", "clearAllContent"}

\* C23: a direct call of renderTemplate whose template was never compiled,
\* whose data is absent or whose target cannot be resolved returns false, does
\* not throw, and leaves every other target as it was.  (A selector that
\* querySelector rejects makes the call throw; the name of a member of
\* Object.prototype passes the guard of line 95.)
C23_FailsClosed ==
    \A i \in RenderLog :
        (/\ renders[i].op = "renderTemplate"
         /\ \/ renders[i].template \notin DOMAIN renders[i].compiled
            \/ ~Truthy(renders[i].data)
            \/ renders[i].target \notin DOMAIN renders[i].before) =>
            /\ renders[i].result = "false"
            /\ \A t \in DOMAIN renders[i].before \ {renders[i].target} :
                  renders[i].after.view[t] = renders[i].before[t]

\* the message of the error the template found under a name throws, compiled
\* being the templates compiled when the call was made
MessageOf(compiled, templateName, renderData) ==
    IF templateName \in DOMAIN compiled THEN ParseError
    ELSE PrototypeError(templateName, renderData)

\* render call k of logged call i failed because the template found under
\* its name threw while it executed: the guards of renderTemplate had passed
ExecutionThrew(i, k) ==
    /\ ~renders[i].after.calls[k].ok
    /\ Found(renders[i].compiled, renders[i].after.calls[k].template)
    /\ renders[i].after.calls[k].target \in DOMAIN renders[i].before
    /\ IsComposite(renders[i]) \/ Truthy(renders[i].data)

\* C24 as stated: every render call that returns false with a target present
\* in the page leaves the error placeholder in that target, whatever the cause.
C24_PlaceholderOnEveryFailure ==
    \A i \in RenderLog : \A k \in CallsOf(i) :
        (/\ ~renders[i].after.calls[k].ok
         /\ renders[i].after.calls[k].target \in DOMAIN renders[i].before) =>
            renders[i].after.view[renders[i].after.calls[k].target] =
                Placeholder(renders[i].after.calls[k].template, ParseError)

\* C24: a render call that returns false leaves the error placeholder, naming
\* the template and the message of the error, in its target exactly when what
\* was found under the template's name threw while it executed (for a member
\* of Object.prototype: on data it cannot convert as well); a call that
\* fails on a guard (nothing found under the name, data absent, target not
\* resolved) writes nothing, and a target present in the page keeps the
\* content it had.
C24_PlaceholderOnExecutionError ==
    \A i \in RenderLog : \A k \in CallsOf(i) :
        /\ ExecutionThrew(i, k) =>
              renders[i].after.view[renders[i].after.calls[k].target] =
                  Placeholder(renders[i].after.calls[k].template,
                              MessageOf(renders[i].compiled,
                                        renders[i].after.calls[k].template,
                                        renders[i].data))
        /\ (/\ ~renders[i].after.calls[k].ok
            /\ ~ExecutionThrew(i, k)
            /\ renders[i].after.calls[k].target \in DOMAIN renders[i].before) =>
              renders[i].after.view[renders[i].after.calls[k].target] =
                  renders[i].before[renders[i].after.calls[k].target]

\* a call with the malformed historicalEvents template has left the
\* placeholder in #heroStats, and a call with a template never compiled has
\* then returned false and left the placeholder there
C24_Witness ==
    /\ Len(renders) = 2
    /\ renders[1].op = "renderTemplate" /\ renders[1].template = "historicalEvents"
    /\ renders[1].result = "false"
    /\ renders[1].before["#heroStats"] = Blank
    /\ renders[1].after.view["#heroStats"] = Placeholder("historicalEvents", ParseError)
    /\ renders[2].op = "renderTemplate" /\ renders[2].template = "timeline"
    /\ renders[2].target = "#heroStats"
    /\ renders[2].result = "false"
    /\ view["#heroStats"] = Placeholder("historicalEvents", ParseError)

\* the era functions
EraFunctions == {"renderFoundationEra", "renderMobileEra", "renderFintechEra"}

\* C25: when renderFoundationEra, renderMobileEra or renderFintechEra returns,
\* it returns true exactly when every render call it issued returned true, and
\* false otherwise; the target of each call that succeeded holds the content
\* that call rendered, whatever the other calls did.
C25_EraReturnsConjunction ==
    \A i \in RenderLog :
        (renders[i].op \in EraFunctions /\ ~renders[i].after.thrown) =>
            /\ renders[i].result \in {"true", "false"}
            /\ renders[i].result = "true" <=>
                  \A k \in CallsOf(i) : renders[i].after.calls[k].ok
            /\ \A k \in CallsOf(i) :
                  renders[i].after.calls[k].ok =>
                      /\ renders[i].after.view[renders[i].after.calls[k].target].kind = "html"
                      /\ renders[i].after.view[renders[i].after.calls[k].target].template =
                            renders[i].after.calls[k].template

\* renderFoundationEra has issued four calls on a page without
\* #foundationStats: three succeeded and show their content, one failed, and
\* false was returned
C25_Witness ==
    /\ Len(renders) = 1
    /\ renders[1].op = "renderFoundationEra"
    /\ Len(renders[1].after.calls) = 4
    /\ renders[1].after.calls[3] =
          [template |-> "statistics", target |-> "#foundationStats", ok |-> FALSE]
    /\ \A k \in {1, 2, 4} : renders[1].after.calls[k].ok
    /\ view["#ptclPrivatization"].kind = "html"
    /\ view["#foundationMilestones"].kind = "html"
    /\ view["#foundationTimeline"].kind = "html"
    /\ renders[1].result = "false"

\* C26: renderSidebarContent returns true when every render call it issued
\* returned true, and false when one of them returned false.
C26_SidebarReturnsConjunction ==
    \A i \in RenderLog :
        (renders[i].op = "renderSidebarContent" /\ ~renders[i].after.thrown) =>
            renders[i].result =
                IF \A k \in CallsOf(i) : renders[i].after.calls[k].ok
                THEN "true" ELSE "false"

\* the page with every target, blank
FullView == [target \in contentSelectors |-> Blank]

\* the composite call c made on a page with every template valid and every
\* target present
Reference(c) ==
    CASE c.op = "renderFoundationEra" ->
            renderFoundationEra(Rendering(FullView), AllTemplates, c.data)
      [] c.op = "renderMobileEra" ->
            renderMobileEra(Rendering(FullView), AllTemplates, c.data)
      [] c.op = "renderFintechEra" ->
            renderFintechEra(Rendering(FullView), AllTemplates, c.data)
      [] c.op = "renderSidebarContent" ->
            renderSidebarContent(Rendering(FullView), AllTemplates, c.data)
      [] OTHER -> RenderSections(FullView, AllTemplates, c.data)

\* the render calls of a rendering, without their outcomes
Issued(r) == [k \in 1..Len(r.calls) |-> <<r.calls[k].template, r.calls[k].target>>]

\* C27: the render calls an era function, renderSidebarContent or a whole
\* render pass issues do not depend on the outcome of any of them: they are
\* the calls the same data gives on a page where every call succeeds, so a
\* call that returns false, after a failed guard or after the template threw,
\* stops no later call of its function or of the functions after it.
C27_RenderCallsIsolated ==
    \A i \in RenderLog :
        IsComposite(renders[i]) =>
            Issued(renders[i].after) = Issued(Reference(renders[i]))

\* a render pass has issued its fourteen calls though the first foundation
\* call failed on the malformed template (placeholder written), a later one
\* on a missing target, and the last call succeeded
C27_Witness ==
    /\ Len(renders) = 1
    /\ renders[1].op = "renderAllContent"
    /\ Len(renders[1].after.calls) = 14
    /\ renders[1].after.calls[2] =
          [template |-> "historicalEvents", target |-> "#ptclPrivatization", ok |-> FALSE]
    /\ view["#ptclPrivatization"] = Placeholder("historicalEvents", ParseError)
    /\ renders[1].after.calls[4] =
          [template |-> "statistics", target |-> "#foundationStats", ok |-> FALSE]
    /\ renders[1].after.calls[14] =
          [template |-> "infrastructure", target |-> "#digitalDivide", ok |-> TRUE]

\* the keyword slots: the function, the keywords and the target of each
Slot(op, keywords, target) == [op |-> op, keywords |-> keywords, target |-> target]
Slots ==
    {Slot("renderFoundationEra", MatchPtcl, "#ptclPrivatization"),
     Slot("renderMobileEra", Match3G4G, "#mobile3G4G"),
     Slot("renderMobileEra", MatchPolicy, "#digitalPakistanPolicy"),
     Slot("renderFintechEra", MatchRaast, "#raastRevolution")}

\* the event at index j has a title that contains a keyword of the slot,
\* whatever the case of its letters
TitleMatches(events, j, keywords) ==
    /\ Get(events.a[j], "title").t = "string"
    /\ \E kw \in keywords : includes(toLowerCase(Get(events.a[j], "title").s), kw)

\* the first event in array order whose title matches, 0 when there is none
FirstMatch(events, keywords) ==
    IF ~IsArray(events) \/ \A j \in 1..Len(events.a) : ~TitleMatches(events, j, keywords)
    THEN 0
    ELSE CHOOSE j \in 1..Len(events.a) :
            /\ TitleMatches(events, j, keywords)
            /\ \A h \in 1..(j - 1) : ~TitleMatches(events, h, keywords)

\* C28: in every call of an era function, each keyword slot selects the first
\* event in array order whose title contains the keyword case-insensitively
\* and issues one render call for it; when no title matches, no call is
\* issued for the slot and its target is left as it was.
C28_FirstMatchSelected ==
    \A i \in RenderLog : \A slot \in Slots :
        renders[i].op = slot.op =>
            IF FirstMatch(Get(renders[i].data, "events"), slot.keywords) = 0
            THEN /\ \A k \in CallsOf(i) : renders[i].after.calls[k].target # slot.target
                 /\ slot.target \in DOMAIN renders[i].before =>
                       renders[i].after.view[slot.target] = renders[i].before[slot.target]
            ELSE /\ \E k \in CallsOf(i) : renders[i].after.calls[k].target = slot.target
                 /\ \A k \in CallsOf(i) :
                       (/\ renders[i].after.calls[k].target = slot.target
                        /\ renders[i].after.calls[k].ok) =>
                          renders[i].after.view[slot.target] =
                              Html("historicalEvents",
                                   JObj(<<<<"events",
                                           JArr(<<Get(renders[i].data, "events").a[
                                                     FirstMatch(Get(renders[i].data, "events"),
                                                                slot.keywords)]>>)>>>>))

\* the delays a loadJSONFile call has taken when it makes attempt a
DelaysBefore(a) == [k \in 1..(a - 1) |-> retryDelay * k]

\* the backoff of pass p: it waits after a failed attempt that is not the
\* last for retryDelay times the number of the attempt, and at attempt a it
\* has taken the delays retryDelay * 1 .. retryDelay * (a - 1), which never
\* decrease
BackedOff(p) ==
    /\ pc[p] = "waiting" =>
          /\ attempt[p] \in 1..(retryAttempts - 1)
          /\ delayMs[p] = retryDelay * attempt[p]
    /\ pc[p] = "fetching" => attempt[p] \in 1..retryAttempts /\ delayMs[p] = 0
    /\ pc[p] \in {"fetching", "waiting"} => delays[p] = DelaysBefore(attempt[p])
    /\ \A k \in 1..(Len(delays[p]) - 1) : delays[p][k] <= delays[p][k + 1]
    /\ Len(delays[p]) <= retryAttempts - 1
    /\ FailedOnLoad(p) => delays[p] = DelaysBefore(retryAttempts)

\* C29: the delay after failed attempt k of a file, k < retryAttempts, is
\* retryDelay * k, and attempt k + 1 follows it; the delays of a file never
\* decrease; a file whose attempts all fail has taken exactly
\* retryAttempts - 1 delays when its last attempt fails, and no delay
\* follows the last failed attempt or an attempt that succeeded.
C29_LinearBackoff ==
    [][\A p \in Passes :
          /\ BackedOff(p)'
          /\ \A i \in 1..Len(FailingResponses) :
                /\ AttemptFails(p, FailingResponses[i]) =>
                      /\ attempt[p] < retryAttempts
                      /\ pc'[p] = "waiting" /\ delayMs'[p] = retryDelay * attempt[p]
                /\ (CriticalFails(p, FailingResponses[i])
                        \/ OptionalFails(p, FailingResponses[i])) =>
                      /\ attempt[p] = retryAttempts
                      /\ Len(delays[p]) = retryAttempts - 1
                      /\ delays[p] = DelaysBefore(retryAttempts)
                      /\ pc'[p] # "waiting"
          /\ pc[p] = "waiting" /\ pc'[p] # "waiting" =>
                /\ pc'[p] = "fetching" /\ attempt'[p] = attempt[p] + 1
                /\ delays'[p] = Append(delays[p], retryDelay * attempt[p])
          /\ (pc[p] = "fetching" /\ pc'[p] \notin {"fetching", "waiting", "failed"}) =>
                delays'[p] = <<>>
          /\ (pc[p] = "fetching" /\ pc'[p] = "fetching" /\ file'[p] # file[p]) =>
                /\ Len(delays[p]) = attempt[p] - 1
                /\ delays'[p] = <<>> /\ delayMs'[p] = 0]_vars

\* the server rejects every fetch of the optional files: policies.json ran
\* out of attempts, and infrastructure.json is at its last attempt after
\* delays of retryDelay and 2 * retryDelay
C29_Witness ==
    \E p \in Passes :
        /\ server = OptionalDown
        /\ pc[p] = "fetching"
        /\ file[p] = NumFiles
        /\ attempt[p] = retryAttempts
        /\ delays[p] = <<retryDelay, 2 * retryDelay>>

\* the values JSON.parse gives for the bodies that pass the check
ParsedDocs ==
    {PrimaryDocs[i] : i \in 1..Len(PrimaryDocs)} \cup
    {OptionalDocs[i] : i \in 1..Len(OptionalDocs)}

\* pass p has used its last attempt for the critical file
Exhausted(p) ==
    /\ pc[p] = "failed"
    /\ file[p] = 1
    /\ attempt[p] = retryAttempts
    /\ delays[p] = DelaysBefore(retryAttempts)
    /\ primaryOutcome[p] = "exhausted"
    /\ error[p] = CriticalError(primaryFile, AttemptError(response[p]))

\* the kinds of failing response: the first is the rejected fetch, the
\* second the HTTP status, the others the bodies that fail the check
Kinds == 1..Len(FailingResponses)

\* C30: a body that fails validateJSONString is never stored as data: every
\* value stored was parsed from a body that passed.  It is caught as the
\* error of its attempt like a rejected fetch or an HTTP status: whatever
\* the kind of the failed response, an attempt that is not the last stores
\* nothing and is followed by the delay retryDelay * attempt; the last
\* attempt for the critical file ends the pass with the critical error that
\* carries the message of the attempt; and the last attempt for an optional
\* file stores nothing, raises no load error and lets the pass go on to the
\* next file or to the rendering.
C30_SyntaxFailureIsAttemptFailure ==
    [][/\ \A k \in DOMAIN data' : data'[k] \in ParsedDocs
       /\ FailingResponses[1] = Network
       /\ \A i \in Kinds : AttemptError(FailingResponses[i]) # NoError
       /\ \A p \in Passes, i \in Kinds :
             /\ AttemptFails(p, FailingResponses[i]) =>
                   /\ attempt[p] < retryAttempts
                   /\ pc'[p] = "waiting" /\ attempt'[p] = attempt[p]
                   /\ delayMs'[p] = retryDelay * attempt[p]
                   /\ lastError'[p] = AttemptError(FailingResponses[i])
                   /\ data' = data /\ error' = error
             /\ CriticalFails(p, FailingResponses[i]) =>
                   /\ response'[p] = FailingResponses[i]
                   /\ Exhausted(p)' /\ FailedOnLoad(p)'
                   /\ data' = data
             /\ OptionalFails(p, FailingResponses[i]) =>
                   /\ attempt[p] = retryAttempts
                   /\ data' = data
                   /\ file[p] \in settled'[p]
                   /\ ~FailedOnLoad(p)'
                   /\ MoreFiles(file[p]) =>
                         /\ pc'[p] = "fetching" /\ file'[p] = file[p] + 1
                         /\ attempt'[p] = 1 /\ error' = error
                   /\ ~MoreFiles(file[p]) => pc'[p] \in {"polling", "ready", "failed"}
       /\ \A p \in Passes :
             (pc[p] = "fetching" /\ server[file[p]] = "flaky") =>
                 \A i \in Kinds : MayFail(server, file[p], FailingResponses[i])]_vars

\* two passes have failed on historical_events.json at their last attempt,
\* one after a malformed body and one after a rejected fetch: both made
\* retryAttempts attempts with the same delays and show the load message,
\* and neither stored anything
C30_Witness ==
    \E p \in Passes, q \in Passes :
        /\ response[p] = Body(Malformed) /\ Exhausted(p)
        /\ response[q] = Network /\ Exhausted(q)
        /\ attempt[p] = attempt[q] /\ delays[p] = delays[q]
        /\ userMessage(error[p]) = userMessage(error[q])
        /\ hasErrors /\ errorMessage = "load"

\* render call k of logged call i wrote into its target: the rendered content
\* (line 119) or the error placeholder (lines 305-311)
Wrote(i, k) == renders[i].after.calls[k].ok \/ ExecutionThrew(i, k)

\* the render calls of logged call i that wrote into target
WritesTo(i, target) ==
    {k \in CallsOf(i) : Wrote(i, k) /\ renders[i].after.calls[k].target = target}

\* C31: in one render pass every write, of rendered content or of an error
\* placeholder, goes to one of the 14 named targets, and each target is
\* written at most once, whatever the historical_events document.
C31_TargetWrittenOnce ==
    \A i \in RenderLog :
        renders[i].op = "renderAllContent" =>
            /\ \A k \in CallsOf(i) : renders[i].after.calls[k].target \in contentSelectors
            /\ \A target \in contentSelectors : Cardinality(WritesTo(i, target)) <= 1

\* a render pass on the page with the malformed historicalEvents template has
\* written every one of the 14 targets once: content in seven, the error
\* placeholder in the seven its historicalEvents calls target
C31_Witness ==
    /\ Len(renders) = 1
    /\ renders[1].op = "renderAllContent"
    /\ \A target \in contentSelectors : Cardinality(WritesTo(1, target)) = 1
    /\ Cardinality({t \in contentSelectors : view[t].kind = "html"}) = 7
    /\ Cardinality({t \in contentSelectors : view[t].kind = "render-error"}) = 7

\* C32: validateJSONData only reads: the document the validators leave,
\* each having put back the sections and elements it went through, is with
\* every section, element and field what it was before the call, for every
\* document and kind, whether the call succeeds, reports errors or converts
\* a fault.
C32_ValidationOnlyReads ==
    \A i \in Logged : validated[i].after = validated[i].doc

\* a document that validates, one with errors in several sections and one
\* that raises a fault have been validated and are as they were
C32_Witness ==
    /\ Len(validated) = 3
    /\ validated[1].result.success /\ validated[1].doc = DocServices
    /\ validated[2].doc = DocManyErrors /\ Len(validated[2].result.errors) > 1
    /\ Faults(validated[3])
    /\ \A i \in Logged : validated[i].after = validated[i].doc

\* the fetch of pass p is out: the pass is suspended in loadJSONFile at the
\* fetch, not at the delay between two attempts
InFlight(p) == pc[p] = "fetching"

\* the loads of pass p are made one after another in the configured order:
\* a file is fetched at most retryAttempts times, the files before the one
\* being fetched have ended and are not fetched again, no later file has
\* been fetched yet
InOrder(p) ==
    /\ attempt[p] <= retryAttempts
    /\ pc[p] \in {"fetching", "waiting"} =>
          /\ issued[p] = 1..file[p]
          /\ settled[p] = 1..(file[p] - 1)
    /\ \A f \in issued[p] \ {1} : (f - 1) \in settled[p]
    /\ [f \in 2..NumFiles |-> fileName(FileAt(f))] =
          [f \in 2..NumFiles |->
              <<"statistics", "companies", "social_media", "policies",
                "infrastructure">>[f - 1]]

\* C33: in every pass each file is fetched at most retryAttempts times and
\* not again once a fetch of it has succeeded, the optional files are
\* attempted one after another in the configured order, and at most one
\* fetch is in flight at any time.
C33_OneFetchAtATime ==
    /\ \A p \in Passes : InOrder(p)
    /\ Cardinality({p \in Passes : InFlight(p)}) <= 1

\* pass p has ended
Ended(p) == pc[p] \in {"ready", "failed"}

\* the polls of waitForTemplatesReady pass p has made
Polls(p) == waited[p] \div checkInterval

\* the fetches and polls of pass p stay within the budget
WithinBudget(p) ==
    /\ fetches[p] <= NumFiles * retryAttempts
    /\ Polls(p) <= maxWait \div checkInterval
    /\ Polls(p) * checkInterval = waited[p]

\* how often the sequence errs holds the message
Count(errs, message) == Cardinality({k \in 1..Len(errs) : errs[k] = message})

\* the type validateFieldType finds, and the types it may find
ActualType(value) == IF IsArray(value) THEN "array" ELSE TypeOf(value)
ActualTypes == {"array", "object", "string", "number", "boolean", "undefined"}

\* the value has none of the expected types
WrongType(value, expectedType) ==
    \A i \in 1..Len(expectedType.types) : expectedType.types[i] # ActualType(value)

\* the type error for a field
TypeMessage(expectedType, fieldPath, actualType) ==
    IF expectedType.list
    THEN fieldPath \o " must be one of: " \o Join(expectedType.types) \o ", got: "
         \o actualType
    ELSE fieldPath \o " must be " \o expectedType.types[1] \o ", got: " \o actualType

\* the fields of the registry entry req, and the required ones among them
DeclaredFields(req) == {req.types[i][1] : i \in 1..Len(req.types)}
RequiredFields(req) == {req.required[i] : i \in 1..Len(req.required)}

\* what validateItemStructure(item, itemType, itemPath) has contributed to
\* the errors errs, field by field
Contributed(errs, item, req, itemPath) ==
    \A field \in DeclaredFields(req) :
        /\ (field \in RequiredFields(req) /\ HasKey(item, field)
               /\ WrongType(Get(item, field), TypeFor(req, field))) =>
              Count(errs, TypeMessage(TypeFor(req, field), itemPath \o "." \o field,
                                      ActualType(Get(item, field)))) = 2
        /\ (field \notin RequiredFields(req) /\ HasKey(item, field)
               /\ WrongType(Get(item, field), TypeFor(req, field))) =>
              Count(errs, TypeMessage(TypeFor(req, field), itemPath \o "." \o field,
                                      ActualType(Get(item, field)))) = 1
        /\ (field \in RequiredFields(req) /\ ~HasKey(item, field)) =>
              /\ Count(errs, itemPath \o " missing required field: " \o field) = 1
              /\ \A actualType \in ActualTypes :
                    Count(errs, TypeMessage(TypeFor(req, field), itemPath \o "." \o field,
                                            actualType)) = 0
        /\ (HasKey(item, field) /\ ~WrongType(Get(item, field), TypeFor(req, field))) =>
              /\ Count(errs, itemPath \o " missing required field: " \o field) = 0
              /\ \A actualType \in ActualTypes :
                    Count(errs, TypeMessage(TypeFor(req, field), itemPath \o "." \o field,
                                            actualType)) = 0

\* validateArrayItems reaches element j of the array: no element before it
\* is null
Reached(items, j) == \A h \in 1..(j - 1) : items.a[h].t # "null"

\* C36: for every object element validateItemStructure is called on, the
\* validator's error list holds, for each field of the element's registry
\* entry: the same type error twice when the field is required and present
\* with a wrong type, the type error once when it is optional and present
\* with a wrong type, 'missing required field' once and no type error when
\* it is required and absent, and nothing when it is present with a right
\* type.
C36_RequiredCheckedTwice ==
    \A i \in Logged :
        (/\ i = Len(validated)
         /\ Walks(validated[i])
         /\ validated[i].kind \in {"historical_events", "companies"}
         /\ IsArray(ItemsOf(validated[i]))) =>
            \A j \in 1..Len(ItemsOf(validated[i]).a) :
                (/\ ItemsOf(validated[i]).a[j].t = "object"
                 /\ Reached(ItemsOf(validated[i]), j)) =>
                    Contributed(validationErrors, ItemsOf(validated[i]).a[j],
                                getRequiredFields[ItemTypeOf(validated[i])],
                                ItemPath(ItemTypeOf(validated[i]), j))

\* the company without name, with a number for subscribers and a number for
\* founded has been validated: one missing field, the type error of
\* subscribers from both loops, the type error of founded from the second
C36_Witness ==
    /\ validated # <<>>
    /\ validated[Len(validated)].doc = DocCompanyFlawed
    /\ validationErrors =
          <<"companies[0] missing required field: name",
            "companies[0].subscribers must be string, got: number",
            "companies[0].subscribers must be string, got: number",
            "companies[0].founded must be string, got: number">>

\* the two service lists of fintechEra, and the document with one of them
\* emptied
ServiceLists == {"mobileBanking", "investmentBoom"}
Emptied(doc, list) ==
    SetMember(doc, "fintechEra", SetMember(Get(doc, "fintechEra"), list, EmptyList))

\* C37: validateJSONData(document, 'statistics') returns success with no
\* errors for every truthy document of type object, whatever it holds; and
\* for historical_events the result does not depend on the elements of
\* fintechEra.mobileBanking and fintechEra.investmentBoom: when the list is
\* an array, the result of the call just made is the one of the document
\* with the list emptied.
C37_StatisticsUnchecked ==
    \A i \in Logged :
        /\ (/\ validated[i].kind = "statistics"
            /\ Truthy(validated[i].doc)
            /\ TypeOf(validated[i].doc) = "object") =>
               /\ validated[i].result.success
               /\ validated[i].result.errors = <<>>
        /\ (/\ i = Len(validated)
            /\ validated[i].kind = "historical_events"
            /\ Walks(validated[i])
            /\ Truthy(Get(validated[i].doc, "fintechEra"))
            /\ TypeOf(Get(validated[i].doc, "fintechEra")) = "object") =>
               \A list \in ServiceLists :
                   IsArray(Get(Get(validated[i].doc, "fintechEra"), list)) =>
                       validated[i].result =
                           validateJSONData(<<>>, Emptied(validated[i].doc, list),
                                            "historical_events")

\* the document with null, a number and a string in mobileBanking has
\* passed as historical_events; the document that fails as historical_events
\* has passed as statistics
C37_Witness ==
    /\ Len(validated) = 2
    /\ validated[1].doc = DocServices /\ validated[1].kind = "historical_events"
    /\ validated[1].result.success
    /\ validated[2].doc = DocManyErrors /\ validated[2].kind = "statistics"
    /\ validated[2].result.success /\ validated[2].result.errors = <<>>
    /\ ~validateJSONData(<<>>, DocManyErrors, "historical_events").success

\* the page carries a template element for the name whose source is more
\* than white space
HasSource(elements, name) == name \in DOMAIN elements /\ Trimmed(elements[name]) # <<>>

\* the five templates the first paint needs
FirstPaint == {"heroStats", "historicalEvents", "statistics", "companies", "socialMedia"}

\* the last logged call is a render pass that found the templates ready and
\* called renderTemplate on 'infrastructure', which was never compiled
InfrastructureNotFound ==
    /\ renders # <<>>
    /\ renders[Len(renders)].op = "renderAllContent"
    /\ isReady(compiledTemplates)
    /\ "infrastructure" \notin DOMAIN compiledTemplates
    /\ \E k \in CallsOf(Len(renders)) :
          renders[Len(renders)].after.calls[k] =
              [template |-> "infrastructure", target |-> "#fiveGFuture", ok |-> FALSE]

\* the step is a call on the renderer, logged last
Called == Len(renders') = Len(renders) + 1

\* C35: isReady() is true exactly when heroStats, historicalEvents,
\* statistics, companies and socialMedia are compiled, whether or not
\* policies and infrastructure compiled.  Nothing is compiled while the
\* document is loading, and from DOMContentLoaded on the templates compiled
\* are those whose element the page carries with a source that is more than
\* white space.  No step removes or replaces a compiled template, so
\* isReady() stays true once it is; and a render call that starts with
\* isReady() true on a template of the page outside the five (policies,
\* infrastructure) that was never compiled returns false and writes nothing.
C35_ReadyMeansFirstPaint ==
    [][/\ isReady(compiledTemplates') <=> FirstPaint \subseteq DOMAIN compiledTemplates'
       /\ readyState' = "loading" => DOMAIN compiledTemplates' = {}
       /\ readyState' # "loading" =>
              DOMAIN compiledTemplates' =
                  {name \in TemplateNames : HasSource(templateElements', name)}
       /\ \A name \in DOMAIN compiledTemplates :
              name \in DOMAIN compiledTemplates'
                  /\ compiledTemplates'[name] = compiledTemplates[name]
       /\ isReady(compiledTemplates) => isReady(compiledTemplates')
       /\ (Called /\ isReady(compiledTemplates)) =>
              \A k \in 1..Len(renders'[Len(renders')].after.calls) :
                  renders'[Len(renders')].after.calls[k].template \in
                          TemplateNames \ DOMAIN compiledTemplates =>
                      /\ ~renders'[Len(renders')].after.calls[k].ok
                      /\ renders'[Len(renders')].after.calls[k].target \in DOMAIN view =>
                            view'[renders'[Len(renders')].after.calls[k].target] =
                                view[renders'[Len(renders')].after.calls[k].target]]_vars

\* The renderer was constructed while the page without the infrastructure
\* template was loading: a first call of renderTemplate('heroStats', ...)
\* found nothing compiled, returned false and wrote nothing; after
\* DOMContentLoaded isReady() is true and a render pass has rendered the
\* hero statistics, while its call for the 5G card returned false and left
\* #fiveGFuture blank
C35_Witness ==
    /\ Len(renders) = 2
    /\ renders[1].op = "renderTemplate" /\ renders[1].template = "heroStats"
    /\ DOMAIN renders[1].compiled = {}
    /\ renders[1].result = "false"
    /\ renders[1].after.view = renders[1].before
    /\ InfrastructureNotFound
    /\ view["#heroStats"].kind = "html"
    /\ view["#fiveGFuture"] = Blank

\* the attempts the files of pass p may still take after the current one
AttemptsLeft(p) == (NumFiles - file[p]) * retryAttempts + (retryAttempts - attempt[p])

\* an upper bound on the steps pass p has left: for each attempt its files
\* may still take the end of a delay and the end of a fetch, the end of the
\* fetch that is out, the polls the wait may still take, the end of the pass
Rank(p) ==
    CASE pc[p] = "fetching" ->
            2 * AttemptsLeft(p) + 1 + (maxWait \div checkInterval) + 1
      [] pc[p] = "waiting" ->
            2 * AttemptsLeft(p) + (maxWait \div checkInterval) + 1
      [] pc[p] = "polling" -> (maxWait - waited[p]) \div checkInterval + 1
      [] OTHER -> 0

\* pass p takes a step
Stepped(p) ==
    <<pc[p], file[p], attempt[p], waited[p]>>' # <<pc[p], file[p], attempt[p], waited[p]>>

\* pass p was cut short: it has ended otherwise than by completing its
\* rendering
CutShort(p) == pc[p] = "failed"

\* pass p has failed in renderAllContent after the load of every file had
\* ended and the templates were ready: no historical data was stored (line
\* 211), or a render function threw
FailedOnRender(p) ==
    /\ pc[p] = "failed"
    /\ error[p] \in {NoDataError, RenderTypeError}
    /\ settled[p] = 1..NumFiles
    /\ isReady(compiledTemplates)

\* C34 as stated: a pass is cut short only by the attempt budget of
\* historical_events.json or by the template-readiness timeout.
C34_OnlyBudgetOrTimeout ==
    \A p \in Passes : CutShort(p) => (FailedOnLoad(p) \/ FailedOnTemplates(p))

\* C34: every pass terminates.  Each step of a running pass, taken when the
\* fetch, delay or poll interval it waits for completes, lowers a bound on
\* the steps it has left, so the pass reaches ready or failed; a pass that
\* has ended stays ended; a pass calls fetch at most 6 * retryAttempts
\* times, at least once for each file it has issued, and polls at most 100
\* times; and a pass is cut short only by the attempt budget of
\* historical_events.json, by the template-readiness timeout, or by an
\* error raised in renderAllContent once every file was attempted and the
\* templates were ready.
C34_PassTerminates ==
    [][\A p \in Passes :
          /\ (Active(p) /\ Stepped(p)) => Rank(p)' < Rank(p)
          /\ Ended(p) => Ended(p)'
          /\ WithinBudget(p)'
          /\ fetches'[p] >= Cardinality(issued'[p])
          /\ fetches'[p] \in {fetches[p], fetches[p] + 1}
          /\ (pc'[p] = "fetching" /\ <<pc[p], file[p], attempt[p]>> #
                                         <<pc'[p], file'[p], attempt'[p]>>) <=>
                fetches'[p] = fetches[p] + 1
          /\ maxWait \div checkInterval = 100 /\ NumFiles = 6
          /\ CutShort(p)' =>
                (FailedOnLoad(p) \/ FailedOnTemplates(p) \/ FailedOnRender(p))']_vars

\* a pass has made 6 * retryAttempts fetches, every file taking every
\* attempt, then polled 100 times and ended at the template-readiness
\* timeout
C34_Witness ==
    \E p \in Passes :
        /\ fetches[p] = NumFiles * retryAttempts
        /\ settled[p] = 1..NumFiles
        /\ Polls(p) = maxWait \div checkInterval
        /\ FailedOnTemplates(p)
        /\ Rank(p) = 0

\* C38: when historical_events.json is answered with the JSON text of a falsy
\* value, loadJSONFile returns at that attempt: no attempt follows, no fatal
\* load error is raised, nothing is validated or stored, and the fetch of the
\* first optional file is issued; a pass that took this branch ends only
\* after every file was fetched, and it ends failed: with 'No historical
\* data available for rendering' (category 'other') once the templates are
\* ready, with the templates error when the wait timed out.
C38_FalsyPrimaryBody ==
    [][\A p \in Passes :
          /\ \A i \in 1..Len(PrimaryDocs) :
                (/\ ~Truthy(PrimaryDocs[i])
                 /\ PrimaryLoads(p, JsonText(PrimaryDocs[i]))
                 /\ Skips(p, JsonText(PrimaryDocs[i]))) =>
                    /\ skipped'[p]
                    /\ primaryOutcome'[p] = "loaded" /\ 1 \in settled'[p]
                    /\ pc'[p] = "fetching" /\ error'[p] = NoError
                    /\ data' = data /\ validationErrors' = validationErrors
                    /\ file'[p] = 2 /\ attempt'[p] = 1 /\ 2 \in issued'[p]
          /\ (skipped'[p] /\ Ended(p)') =>
                /\ issued'[p] = 1..NumFiles /\ settled'[p] = 1..NumFiles
                /\ pc'[p] = "failed"
                /\ isReady(compiledTemplates') =>
                      error'[p] = NoDataError /\ userMessage(error'[p]) = "other"
                /\ ~isReady(compiledTemplates') => FailedOnTemplates(p)'
          /\ error'[p] = NoDataError =>
                isReady(compiledTemplates') /\ settled'[p] = 1..NumFiles]_vars

====
